---- MODULE Spec2Model ----
(***************************************************************************)
(* Solar analysis server (src/core/python/server.py) with its pipeline     *)
(* (pipeline.py, engine.py, usd_io.py), and the Maya client of the server  *)
(* (src/integrations/maya/python/client.py).                               *)
(*                                                                         *)
(* The request handlers are `async def` without an await between their     *)
(* reads of the job map, so they run one at a time on the event loop.      *)
(* process_job is a plain `def` handed to BackgroundTasks: it runs on a    *)
(* worker thread, one per job, and every one of its statements may         *)
(* interleave with the handlers and with the other jobs' tasks.            *)
(*                                                                         *)
(* The client runs its HTTP requests on worker threads and hands what the  *)
(* host is to see to Maya's main thread through cmds.evalDeferred.  The    *)
(* server specifications leave the client as constructed; SpecClient runs  *)
(* the client against a server that may give any answer.                   *)
(***************************************************************************)
EXTENDS Integers, Sequences, FiniteSets, Bags

\* Number of jobs a run of Spec lets POST /submit create.
MaxJobs == 1
\* Number of jobs a run of SpecPair lets POST /submit create.
PairJobs == MaxJobs + 1
\* Last reading of the clock the model lets datetime.now() reach.
MaxClock == 1
\* Number of submit_job calls a run of SpecClient lets the host make.
MaxSubmits == 1
\* Number of submit_job calls a run of SpecResubmit lets the host make.
Resubmits == MaxSubmits + 1
\* Number of status requests the model lets the client's poll workers send.
MaxPolls == 2
\* Largest number of faces of a result array given to results_to_colors.
MaxFaces == 3
\* Largest sun hours value of a face in such an array.
MaxHours == 3
\* ecotect_color is run on the multiples of 1/Grid.
Grid == 30

JobIds == 1..PairJobs
\* ids a client may put in a URL: every job id and one id no job ever gets
ReqIds == 0..MaxJobs
PairReqIds == 0..PairJobs

\* Python's None, and a key a dict (or a response body) does not hold
Null == "None"
Absent == "absent"
\* datetime.now().isoformat() of a clock reading; NoTime is a missing stamp
NoTime == <<>>
Stamp(t) == <<t>>

Arrays == <<"face_centers", "face_normals", "scene_triangles", "sun_vectors">>
ArrayNames == {Arrays[i] : i \in 1..Len(Arrays)}

SceneFile == "scene.usda"
EpwFile == "weather.epw"
ResultFile == "scene_results.usda"
CsvFile == "scene_results.csv"
FileNames == {SceneFile, EpwFile, ResultFile, CsvFile}

\* An uploaded scene + weather file pair, by what the pipeline can see of it:
\*   stage   Usd.Stage.Open and the default prim work
\*   fields  solar:params and the mesh primvars are there and parse
\*   bad     the arrays that hold a NaN or an Inf (sun_vectors: from the epw)
GoodScene == [stage |-> TRUE, fields |-> TRUE, bad |-> {}]
NoScene == [stage |-> FALSE, fields |-> FALSE, bad |-> {}]
SubmitScenes ==
    { GoodScene,
      [stage |-> FALSE, fields |-> TRUE, bad |-> {}],
      [stage |-> TRUE, fields |-> FALSE, bad |-> {}],
      [stage |-> TRUE, fields |-> TRUE, bad |-> {"face_normals"}] }

VARIABLES
    jobs,      \* server.py `jobs`: job id -> record, for the ids in the map
    task,      \* per job id: position and locals of its process_job call
    disk,      \* per job id: JOBS_DIR/<id>, whether it exists and its files
    scene,     \* per job id: content of the uploaded scene.usda/weather.epw
    req,       \* the request the event loop is handling, or its answer just sent
    nextId,    \* uuid4 as a source of fresh ids
    deleted,   \* ids whose DELETE /job/{id} has succeeded
    hist,      \* per job id: the status values the map has held for it
    now,       \* the reading datetime.now() gives
    client,    \* the SolarAnalysisClient instance: its attributes
    main,      \* Maya's main thread: idle, or the client line it is about to run
    threads,   \* the client's live worker threads, each with its position and locals
    deferred,  \* callables passed to cmds.evalDeferred, not yet run
    idle_jobs, \* runOnce scriptJobs waiting for Maya's next idle event
    host,      \* the callback call the host received last, and on which thread
    net,       \* the HTTP request the client issued last, and from which thread
    submits,   \* number of submit_job calls so far
    polls,     \* number of status requests sent so far
    saved,     \* job ids under whose name a result file is in the workspace
    completed, \* job ids some status response has reported complete
    stopped,   \* stop_polling has cleared current_job_id since the last submit_job
    btn_run,   \* the UI's run button (solar_ui.py btn_run): enabled or not
    delivered, \* per submit_job call: how often the host received its callback
    run        \* a pipeline function called on its own: arguments, position, result

svars == <<jobs, task, disk, scene, req, nextId, deleted, hist, now>>
\* the host's side of the callbacks
uvars == <<btn_run, delivered>>
cvars == <<client, main, threads, deferred, idle_jobs, host, net, submits, polls,
           saved, completed, stopped, uvars>>
\* what no step of the client touches
ovars == <<svars, run>>
vars == <<svars, cvars, run>>

----------------------------------------------------------------------------
\* State after import of server.py: empty map, no request, no job directory.

NoTask == [pc |-> "none", stage |-> NoScene, result_path |-> Null, exc |-> Null,
           failed |-> "none"]
NoDir == [exists |-> FALSE, files |-> {}]
\* `jobs` is the health body's <<total, queued, processing, complete, error>>
NoResp == [code |-> 0, status |-> Absent, error |-> Absent, traceback |-> Absent,
           submitted_at |-> Absent, started_at |-> Absent,
           completed_at |-> Absent, path |-> Absent, jobs |-> << >>]
Idle == [op |-> "none", id |-> 0, pc |-> "idle", seen |-> Absent, resp |-> NoResp]

ServerInit ==
    /\ jobs = << >>
    /\ task = [j \in JobIds |-> NoTask]
    /\ disk = [j \in JobIds |-> NoDir]
    /\ scene = [j \in JobIds |-> NoScene]
    /\ req = Idle
    /\ nextId = 1
    /\ deleted = {}
    /\ hist = [j \in JobIds |-> << >>]
    /\ now = 0

\* State after SolarAnalysisClient(status_callback=...): nothing tracked, no
\* thread, nothing deferred.

\* current_job_id = None; in a URL it names no job
NoJobId == 0
\* result_callback = None; the callback of the n-th submit_job call is n
NoCallback == 0
\* the status callback the UI passes (solar_ui.py on_status_update)
OnStatus == "on_status_update"
StatusCallbacks == {Null, OnStatus}

\* a callable as evalDeferred takes it: a method of the client, or a
\* callback bound to its arguments
NoCall == [fn |-> "none", cb |-> NoCallback, event |-> Absent, progress |-> 0,
           success |-> FALSE, msg |-> Absent, file |-> NoJobId]
Nothing == [call |-> NoCall, ctx |-> "none"]
NoRequest == [kind |-> "none", id |-> NoJobId, ctx |-> "none"]

\* no pipeline function is being run on its own
NotCalled == [fn |-> "none"]

SolarAnalysisClient(status_callback) ==
    [current_job_id |-> NoJobId, timer_id |-> Null,
     result_callback |-> NoCallback, status_callback |-> status_callback]

ClientInit(status_callback) ==
    /\ client = SolarAnalysisClient(status_callback)
    /\ main = "idle"
    /\ threads = EmptyBag
    /\ deferred = << >>
    /\ idle_jobs = 0
    /\ host = Nothing
    /\ net = NoRequest
    /\ submits = 0
    /\ polls = 0
    /\ saved = {}
    /\ completed = {}
    /\ stopped = FALSE
    /\ btn_run = TRUE
    /\ delivered = [n \in 1..Resubmits |-> 0]

\* server and client as the UI sets them up
Init == ServerInit /\ ClientInit(OnStatus) /\ run = NotCalled
\* the same, with or without a status callback (the constructor's default)
InitClient ==
    /\ ServerInit
    /\ \E status_callback \in StatusCallbacks : ClientInit(status_callback)
    /\ run = NotCalled

----------------------------------------------------------------------------
\* Helpers

Has(js, j) == j \in DOMAIN js

\* the map with key j bound to record r (jobs[job_id] = {...})
Bind(js, j, r) == [k \in DOMAIN js \cup {j} |-> IF k = j THEN r ELSE js[k]]

\* the map without key j (del jobs[job_id])
Unbind(js, j) == [k \in DOMAIN js \ {j} |-> js[k]]

\* req after a step of anything but the handler: an answer, once sent, is gone
Sent(r) == IF r.pc = "done" THEN Idle ELSE r

\* hist after a step that leaves the map as `new`: a status is logged when a
\* record appears or its status changes
StatusLog(new) ==
    [j \in JobIds |->
        IF Has(new, j) /\ (~Has(jobs, j) \/ jobs[j].status # new[j].status)
        THEN Append(hist[j], new[j].status)
        ELSE hist[j]]

----------------------------------------------------------------------------
\* The pipeline stages (pipeline.py, engine.py, usd_io.py) as functions of
\* what they read.  An outcome is a value or a raised exception's message.

Returns(v) == [raised |-> FALSE, val |-> v]
Raises(msg) == [raised |-> TRUE, val |-> msg]

\* what the host offers setup_optix_module / optix_module.analyze at a call
Engines == {"ok", "load_fail", "analyze_fail"}

InvalidMsg(a) ==
    CASE a = "face_centers" -> "Invalid face_centers: contains NaN or Inf"
      [] a = "face_normals" -> "Invalid face_normals: contains NaN or Inf"
      [] a = "scene_triangles" -> "Invalid scene_triangles: contains NaN or Inf"
      [] a = "sun_vectors" -> "Invalid sun_vectors: contains NaN or Inf"

\* usd_io.read_solar_usd: opens the stage, parses solar:params, reads the meshes
read_solar_usd(files, sc) ==
    IF SceneFile \in files /\ sc.stage /\ sc.fields
    THEN Returns("scene_data")
    ELSE Raises("read_solar_usd failed")

\* engine.setup_optix_module: loads the CUDA runtime and the engine module
setup_optix_module(engine) ==
    IF engine = "load_fail"
    THEN Raises("Failed to load CUDA runtime DLL")
    ELSE Returns("optix_module")

\* engine.run_optix_analysis: epw check, the four array checks in source
\* order, then the engine call
run_optix_analysis(files, sc, engine) ==
    IF EpwFile \notin files THEN Raises("Missing or invalid epw file path")
    ELSE IF Arrays[1] \in sc.bad THEN Raises(InvalidMsg(Arrays[1]))
    ELSE IF Arrays[2] \in sc.bad THEN Raises(InvalidMsg(Arrays[2]))
    ELSE IF Arrays[3] \in sc.bad THEN Raises(InvalidMsg(Arrays[3]))
    ELSE IF Arrays[4] \in sc.bad THEN Raises(InvalidMsg(Arrays[4]))
    ELSE IF engine = "analyze_fail" THEN Raises("engine error")
    ELSE Returns("results")

\* analyze_solar_scene, steps 1 and 2: both `except Exception` blocks print
\* the failure and `return None`.  returned = FALSE: step 3 is reached.
analyze_read_and_run(files, sc, engine) ==
    IF read_solar_usd(files, sc).raised
    THEN [returned |-> TRUE, failed |-> "read"]
    ELSE IF setup_optix_module(engine).raised
            \/ run_optix_analysis(files, sc, engine).raised
    THEN [returned |-> TRUE, failed |-> "analysis"]
    ELSE [returned |-> FALSE, failed |-> "none"]

----------------------------------------------------------------------------
\* process_job(job_id, usd_path, epw_path), one action per statement that
\* touches shared state.  pc names the source line the task is about to run.

\* the record submit_job inserts, but for its time stamp
NewJob == [status |-> "queued", result_path |-> Null, error |-> Null,
           submitted_at |-> NoTime, started_at |-> NoTime,
           completed_at |-> NoTime, traceback |-> Null]

\* jobs.setdefault(job_id, {...})[key] = val: a missing record is put back
StoreItemSetdefault(js, j, key, val) ==
    [raised |-> FALSE,
     jobs |-> IF Has(js, j) THEN [js EXCEPT ![j][key] = val]
              ELSE Bind(js, j, [NewJob EXCEPT ![key] = val])]

\* jobs[job_id][key] = val: the lookup raises KeyError when the id is gone
StoreItem(js, j, key, val) ==
    IF Has(js, j)
    THEN [raised |-> FALSE, jobs |-> [js EXCEPT ![j][key] = val]]
    ELSE [raised |-> TRUE, jobs |-> js]

\* the call's frame: its locals are gone once it has returned or raised
Frame(t) ==
    IF t.pc \in {"done", "raised"}
    THEN [t EXCEPT !.stage = NoScene, !.result_path = Null, !.exc = Null]
    ELSE t

\* a statement of the try block: an exception enters the handler at line 75
TryStore(j, key, val, next) ==
    LET r == StoreItem(jobs, j, key, val) IN
    /\ jobs' = r.jobs
    /\ task' = [task EXCEPT ![j] =
                   Frame([@ EXCEPT !.pc = IF r.raised THEN "L77" ELSE next,
                                   !.exc = IF r.raised THEN "KeyError" ELSE @])]

\* a statement of the except block: an exception leaves process_job
ExceptStore(j, key, val, next) ==
    LET r == StoreItem(jobs, j, key, val) IN
    /\ jobs' = r.jobs
    /\ task' = [task EXCEPT ![j] =
                   Frame([@ EXCEPT !.pc = IF r.raised THEN "raised" ELSE next])]

process_job_47(j) ==
    /\ task[j].pc = "L47"
    /\ TryStore(j, "status", "processing", "L48")
    /\ hist' = StatusLog(jobs')
    /\ req' = Sent(req)
    /\ UNCHANGED <<disk, scene, nextId, deleted, now, cvars, run>>

process_job_48(j) ==
    /\ task[j].pc = "L48"
    /\ TryStore(j, "started_at", Stamp(now), "L53")
    /\ hist' = StatusLog(jobs')
    /\ req' = Sent(req)
    /\ UNCHANGED <<disk, scene, nextId, deleted, now, cvars, run>>

\* lines 53-55: open the uploaded scene into memory, point solar:epwFile at
\* the uploaded epw
process_job_53(j) ==
    /\ task[j].pc = "L53"
    /\ IF SceneFile \in disk[j].files /\ scene[j].stage
       THEN task' = [task EXCEPT ![j].pc = "L56", ![j].stage = scene[j]]
       ELSE task' = [task EXCEPT ![j].pc = "L77", ![j].exc = "Usd.Stage.Open failed"]
    /\ req' = Sent(req)
    /\ UNCHANGED <<jobs, disk, scene, nextId, deleted, hist, now, cvars, run>>

\* what stage.Save() leaves of directory d: the layer written to `file`, its
\* directory made first when it is not there
Save(d, file) == [exists |-> TRUE, files |-> d.files \cup {file}]

\* line 56: stage.Save() writes the stage held in memory to usd_path
process_job_56(j) ==
    /\ task[j].pc = "L56"
    /\ disk' = [disk EXCEPT ![j] = Save(@, SceneFile)]
    /\ scene' = [scene EXCEPT ![j] = task[j].stage]
    /\ task' = [task EXCEPT ![j].pc = "L67", ![j].stage = NoScene]
    /\ req' = Sent(req)
    /\ UNCHANGED <<jobs, nextId, deleted, hist, now, cvars, run>>

\* line 67, pipeline.py 21-46: read the scene and run the analysis
process_job_67(j) ==
    /\ task[j].pc = "L67"
    /\ \E engine \in Engines :
         LET r == analyze_read_and_run(disk[j].files, scene[j], engine) IN
         task' = [task EXCEPT ![j].pc = IF r.returned THEN "L69" ELSE "P55",
                              ![j].result_path = Null,
                              ![j].failed = r.failed]
    /\ req' = Sent(req)
    /\ UNCHANGED <<jobs, disk, scene, nextId, deleted, hist, now, cvars, run>>

\* pipeline.py 55, usd_io.py 223-226: write_results_to_usd copies the scene
\* beside itself and opens the copy; not inside a try, so a failure reaches
\* process_job
process_job_P55(j) ==
    /\ task[j].pc = "P55"
    /\ \E io_ok \in BOOLEAN :
         IF io_ok /\ SceneFile \in disk[j].files
         THEN /\ disk' = [disk EXCEPT ![j].files = @ \cup {ResultFile}]
              /\ task' = [task EXCEPT ![j].pc = "U276"]
         ELSE /\ task' = [task EXCEPT ![j].pc = "L77", ![j].failed = "write",
                                      ![j].exc = "write_results_to_usd failed"]
              /\ UNCHANGED disk
    /\ req' = Sent(req)
    /\ UNCHANGED <<jobs, scene, nextId, deleted, hist, now, cvars, run>>

\* usd_io.py 228-276: the copy, edited in memory, is saved
process_job_U276(j) ==
    /\ task[j].pc = "U276"
    /\ disk' = [disk EXCEPT ![j] = Save(@, ResultFile)]
    /\ task' = [task EXCEPT ![j].pc = "P56"]
    /\ req' = Sent(req)
    /\ UNCHANGED <<jobs, scene, nextId, deleted, hist, now, cvars, run>>

\* pipeline.py 56-64: write_results_csv, then return output_path
process_job_P56(j) ==
    /\ task[j].pc = "P56"
    /\ \E io_ok \in BOOLEAN :
         IF io_ok /\ disk[j].exists
         THEN /\ disk' = [disk EXCEPT ![j].files = @ \cup {CsvFile}]
              /\ task' = [task EXCEPT ![j].pc = "L69", ![j].result_path = ResultFile]
         ELSE /\ task' = [task EXCEPT ![j].pc = "L77", ![j].failed = "write",
                                      ![j].exc = "write_results_csv failed"]
              /\ UNCHANGED disk
    /\ req' = Sent(req)
    /\ UNCHANGED <<jobs, scene, nextId, deleted, hist, now, cvars, run>>

process_job_69(j) ==
    /\ task[j].pc = "L69"
    /\ TryStore(j, "status", "complete", "L70")
    /\ hist' = StatusLog(jobs')
    /\ req' = Sent(req)
    /\ UNCHANGED <<disk, scene, nextId, deleted, now, cvars, run>>

process_job_70(j) ==
    /\ task[j].pc = "L70"
    /\ TryStore(j, "result_path", task[j].result_path, "L71")
    /\ hist' = StatusLog(jobs')
    /\ req' = Sent(req)
    /\ UNCHANGED <<disk, scene, nextId, deleted, now, cvars, run>>

\* line 71 with a time stamp expression that raises
process_job_71_raises(j) ==
    /\ task[j].pc = "L71"
    /\ task' = [task EXCEPT ![j].pc = "L77", ![j].exc = "AttributeError"]
    /\ req' = Sent(req)
    /\ UNCHANGED <<jobs, disk, scene, nextId, deleted, hist, now, cvars, run>>

process_job_71(j) ==
    /\ task[j].pc = "L71"
    /\ TryStore(j, "completed_at", Stamp(now), "done")
    /\ hist' = StatusLog(jobs')
    /\ req' = Sent(req)
    /\ UNCHANGED <<disk, scene, nextId, deleted, now, cvars, run>>

\* line 75 as `except Exception: pass`
process_job_77_pass(j) ==
    /\ task[j].pc = "L77"
    /\ task' = [task EXCEPT ![j] = Frame([@ EXCEPT !.pc = "done"])]
    /\ req' = Sent(req)
    /\ UNCHANGED <<jobs, disk, scene, nextId, deleted, hist, now, cvars, run>>

process_job_77(j) ==
    /\ task[j].pc = "L77"
    /\ ExceptStore(j, "status", "error", "L78")
    /\ hist' = StatusLog(jobs')
    /\ req' = Sent(req)
    /\ UNCHANGED <<disk, scene, nextId, deleted, now, cvars, run>>

process_job_78(j) ==
    /\ task[j].pc = "L78"
    /\ ExceptStore(j, "error", task[j].exc, "L82")
    /\ hist' = StatusLog(jobs')
    /\ req' = Sent(req)
    /\ UNCHANGED <<disk, scene, nextId, deleted, now, cvars, run>>

process_job_82(j) ==
    /\ task[j].pc = "L82"
    /\ ExceptStore(j, "traceback", "Traceback (most recent call last)", "done")
    /\ hist' = StatusLog(jobs')
    /\ req' = Sent(req)
    /\ UNCHANGED <<disk, scene, nextId, deleted, now, cvars, run>>

process_job(j) ==
    \/ process_job_47(j)
    \/ process_job_48(j)
    \/ process_job_53(j)
    \/ process_job_56(j)
    \/ process_job_67(j)
    \/ process_job_P55(j)
    \/ process_job_U276(j)
    \/ process_job_P56(j)
    \/ process_job_69(j)
    \/ process_job_70(j)
    \/ process_job_71(j)
    \/ process_job_77(j)
    \/ process_job_78(j)
    \/ process_job_82(j)

----------------------------------------------------------------------------
\* The request handlers.  A handler starts when the event loop is free
\* (req.pc is "idle" or "done") and holds it until it has answered.

Free == req.pc \in {"idle", "done"}

Answer(op, id, seen, resp) ==
    [op |-> op, id |-> id, pc |-> "done", seen |-> seen, resp |-> resp]

\* the JSONResponse without status_code=404
NotFoundDefaultCode == [NoResp EXCEPT !.code = 200, !.error = "Job not found"]
NotFound == [NoResp EXCEPT !.code = 404, !.error = "Job not found"]
\* an exception no handler catches: Starlette answers 500
ServerError == [NoResp EXCEPT !.code = 500, !.error = "Internal Server Error"]

\* an id generator that hands out again the id of a deleted job
uuid4_reused == IF deleted # {} THEN CHOOSE d \in deleted : TRUE ELSE nextId
\* line 106, str(uuid.uuid4()): an id no earlier call has returned
uuid4 == nextId

\* POST /submit with line 135 but without lines 127-132
submit_job_unregistered(sc) ==
    /\ Free
    /\ nextId \in JobIds
    /\ LET job_id == uuid4 IN
       /\ disk' = [disk EXCEPT ![job_id] =
                       [exists |-> TRUE, files |-> {SceneFile, EpwFile}]]
       /\ scene' = [scene EXCEPT ![job_id] = sc]
       /\ task' = [task EXCEPT ![job_id].pc = "L47"]
       /\ req' = Answer("submit_job", job_id, Absent,
                        [NoResp EXCEPT !.code = 200, !.status = "queued"])
    /\ nextId' = nextId + 1
    /\ UNCHANGED <<jobs, deleted, hist, now, cvars, run>>

\* POST /submit, lines 106-141: fresh id, job directory with the two uploads,
\* the queued record, process_job scheduled for after the response
submit_job(sc) ==
    /\ Free
    /\ nextId \in JobIds
    /\ LET job_id == uuid4 IN
       /\ disk' = [disk EXCEPT ![job_id] =
                       [exists |-> TRUE, files |-> {SceneFile, EpwFile}]]
       /\ scene' = [scene EXCEPT ![job_id] = sc]
       /\ jobs' = Bind(jobs, job_id, [NewJob EXCEPT !.submitted_at = Stamp(now)])
       /\ task' = [task EXCEPT ![job_id].pc = "L47"]
       /\ req' = Answer("submit_job", job_id, Absent,
                        [NoResp EXCEPT !.code = 200, !.status = "queued"])
    /\ nextId' = nextId + 1
    /\ hist' = StatusLog(jobs')
    /\ UNCHANGED <<deleted, now, cvars, run>>

\* GET /status/{job_id}, lines 147-157: the 404, or the body's first keys
get_status(id) ==
    /\ Free
    /\ IF ~Has(jobs, id)
       THEN req' = Answer("get_status", id, Absent, NotFound)
       ELSE req' = [op |-> "get_status", id |-> id, pc |-> "L159", seen |-> Absent,
                    resp |-> [NoResp EXCEPT !.code = 200,
                                            !.status = jobs[id].status,
                                            !.submitted_at = jobs[id].submitted_at]]
    /\ UNCHANGED <<jobs, task, disk, scene, nextId, deleted, hist, now, cvars, run>>

\* lines 159-160
get_status_159 ==
    /\ req.op = "get_status" /\ req.pc = "L159"
    /\ req' = [req EXCEPT !.pc = "L162",
                          !.resp.started_at = IF jobs[req.id].status = "processing"
                                              THEN jobs[req.id].started_at ELSE @]
    /\ UNCHANGED <<jobs, task, disk, scene, nextId, deleted, hist, now, cvars, run>>

\* lines 162-163
get_status_162 ==
    /\ req.op = "get_status" /\ req.pc = "L162"
    /\ req' = [req EXCEPT !.pc = "L165",
                          !.resp.completed_at = IF jobs[req.id].status = "complete"
                                                THEN jobs[req.id].completed_at ELSE @]
    /\ UNCHANGED <<jobs, task, disk, scene, nextId, deleted, hist, now, cvars, run>>

\* lines 165-169
get_status_165 ==
    /\ req.op = "get_status" /\ req.pc = "L165"
    /\ req' = IF jobs[req.id].status = "error"
              THEN [req EXCEPT !.pc = "done",
                               !.resp.error = jobs[req.id].error,
                               !.resp.traceback = jobs[req.id].traceback]
              ELSE [req EXCEPT !.pc = "done"]
    /\ UNCHANGED <<jobs, task, disk, scene, nextId, deleted, hist, now, cvars, run>>

\* line 180 testing for queued only
NotReadyQueuedOnly(status) == status = "queued"
\* line 180: job["status"] != "complete"
NotReady(status) == status # "complete"

\* GET /result/{job_id}, lines 175-180: the 404, or the status test
get_result(id) ==
    /\ Free
    /\ IF ~Has(jobs, id)
       THEN req' = Answer("get_result", id, Absent, NotFound)
       ELSE req' = [op |-> "get_result", id |-> id,
                    pc |-> IF NotReady(jobs[id].status) THEN "L181" ELSE "L190",
                    seen |-> jobs[id].status, resp |-> NoResp]
    /\ UNCHANGED <<jobs, task, disk, scene, nextId, deleted, hist, now, cvars, run>>

\* lines 181-188: the 400 body reads job["status"] again
get_result_181 ==
    /\ req.op = "get_result" /\ req.pc = "L181"
    /\ req' = [req EXCEPT !.pc = "done",
                          !.resp = [NoResp EXCEPT !.code = 400,
                                                  !.error = "Job not ready",
                                                  !.status = jobs[req.id].status]]
    /\ UNCHANGED <<jobs, task, disk, scene, nextId, deleted, hist, now, cvars, run>>

\* lines 190-199: os.path.exists(None) raises TypeError
get_result_190 ==
    /\ req.op = "get_result" /\ req.pc = "L190"
    /\ LET result_path == jobs[req.id].result_path IN
       req' = [req EXCEPT !.pc = "done",
                          !.resp = IF result_path = Null THEN ServerError
                                   ELSE IF result_path \notin disk[req.id].files
                                   THEN [NoResp EXCEPT !.code = 500,
                                                       !.error = "Result file not found"]
                                   ELSE [NoResp EXCEPT !.code = 200,
                                                       !.path = result_path]]
    /\ UNCHANGED <<jobs, task, disk, scene, nextId, deleted, hist, now, cvars, run>>

\* the order in which the job directory lists its entries (by name)
Listing == <<SceneFile, CsvFile, ResultFile, EpwFile>>

\* what is left of `files` when rmtree fails at the k-th entry of the listing
From(files, k) == {Listing[i] : i \in {i \in k..Len(Listing) : Listing[i] \in files}}

\* DELETE /job/{job_id}, lines 205-211: the 404, or shutil.rmtree, which either
\* removes the directory or raises at an entry it cannot remove, the entries
\* listed before that one removed
delete_job(id) ==
    /\ Free
    /\ IF ~Has(jobs, id)
       THEN /\ req' = Answer("delete_job", id, Absent, NotFound)
            /\ UNCHANGED <<disk, scene>>
       ELSE IF ~disk[id].exists
       THEN /\ req' = [op |-> "delete_job", id |-> id, pc |-> "L214",
                       seen |-> Absent, resp |-> NoResp]
            /\ UNCHANGED <<disk, scene>>
       ELSE \E rmtree_ok \in BOOLEAN :
              IF rmtree_ok
              THEN /\ disk' = [disk EXCEPT ![id] = NoDir]
                   /\ scene' = [scene EXCEPT ![id] = NoScene]
                   /\ req' = [op |-> "delete_job", id |-> id, pc |-> "L214",
                              seen |-> Absent, resp |-> NoResp]
              ELSE /\ \E k \in 1..Len(Listing) :
                        /\ Listing[k] \in disk[id].files
                        /\ disk' = [disk EXCEPT ![id].files = From(@, k)]
                   /\ req' = Answer("delete_job", id, Absent, ServerError)
                   /\ UNCHANGED scene
    /\ UNCHANGED <<jobs, task, nextId, deleted, hist, now, cvars, run>>

\* lines 214-216
delete_job_214 ==
    /\ req.op = "delete_job" /\ req.pc = "L214"
    /\ jobs' = Unbind(jobs, req.id)
    /\ deleted' = deleted \cup {req.id}
    /\ req' = [req EXCEPT !.pc = "done", !.resp = [NoResp EXCEPT !.code = 200]]
    /\ hist' = StatusLog(jobs')
    /\ UNCHANGED <<task, disk, scene, nextId, now, cvars, run>>

\* the clock moves on
Tick ==
    /\ now < MaxClock
    /\ now' = now + 1
    /\ req' = Sent(req)
    /\ UNCHANGED <<jobs, task, disk, scene, nextId, deleted, hist, cvars, run>>

----------------------------------------------------------------------------

Next ==
    \/ \E sc \in SubmitScenes : nextId <= MaxJobs /\ submit_job(sc)
    \/ \E id \in ReqIds : get_status(id)
    \/ get_status_159
    \/ get_status_162
    \/ get_status_165
    \/ \E id \in ReqIds : get_result(id)
    \/ get_result_181
    \/ get_result_190
    \/ \E id \in ReqIds : delete_job(id)
    \/ delete_job_214
    \/ \E j \in JobIds : process_job(j)

\* the server with a clock too coarse to move during the run
Spec == Init /\ [][Next]_vars

\* the server with a clock that moves
NextTimed == Next \/ Tick
SpecTimed == Init /\ [][NextTimed]_vars

\* the server taking a second job; the uploads are scenes that analyse
PairScenes == {GoodScene}
NextPair ==
    \/ \E sc \in PairScenes : submit_job(sc)
    \/ \E id \in PairReqIds : get_status(id)
    \/ get_status_159
    \/ get_status_162
    \/ get_status_165
    \/ \E id \in PairReqIds : get_result(id)
    \/ get_result_181
    \/ get_result_190
    \/ \E id \in PairReqIds : delete_job(id)
    \/ delete_job_214
    \/ \E j \in JobIds : process_job(j)
SpecPair == Init /\ [][NextPair]_vars

\* GET /, lines 88-97.  The handler evaluates len(jobs) and then the four
\* sums one after the other; process_job, on its thread, may run between two
\* of them.

\* sum(1 for j in jobs.values() if j["status"] == status)
Count(status) == Cardinality({j \in DOMAIN jobs : jobs[j].status = status})

\* the next entry of the body's "jobs", then on to line `next`
Counted(n, next) == [req EXCEPT !.pc = next, !.resp.jobs = Append(@, n)]

\* line 91: "total": len(jobs)
root ==
    /\ Free
    /\ req' = [op |-> "root", id |-> 0, pc |-> "L92", seen |-> Absent,
               resp |-> [NoResp EXCEPT !.code = 200, !.status = "running",
                                       !.jobs = <<Cardinality(DOMAIN jobs)>>]]
    /\ UNCHANGED <<jobs, task, disk, scene, nextId, deleted, hist, now, cvars, run>>

root_92 ==
    /\ req.op = "root" /\ req.pc = "L92"
    /\ req' = Counted(Count("queued"), "L93")
    /\ UNCHANGED <<jobs, task, disk, scene, nextId, deleted, hist, now, cvars, run>>

root_93 ==
    /\ req.op = "root" /\ req.pc = "L93"
    /\ req' = Counted(Count("processing"), "L94")
    /\ UNCHANGED <<jobs, task, disk, scene, nextId, deleted, hist, now, cvars, run>>

root_94 ==
    /\ req.op = "root" /\ req.pc = "L94"
    /\ req' = Counted(Count("complete"), "L95")
    /\ UNCHANGED <<jobs, task, disk, scene, nextId, deleted, hist, now, cvars, run>>

root_95 ==
    /\ req.op = "root" /\ req.pc = "L95"
    /\ req' = Counted(Count("error"), "done")
    /\ UNCHANGED <<jobs, task, disk, scene, nextId, deleted, hist, now, cvars, run>>

\* the server also asked for its health
NextHealth ==
    \/ Next
    \/ root
    \/ root_92
    \/ root_93
    \/ root_94
    \/ root_95
SpecHealth == Init /\ [][NextHealth]_vars

\* the server whose thread pool gives every scheduled process_job call its
\* turn: a call that can take a step does not wait for ever
SpecFair == Spec /\ \A j \in JobIds : WF_vars(process_job(j))

----------------------------------------------------------------------------
\* The client (client.py).  What the host calls and what Maya runs for the
\* client when idle runs on the main thread, one call at a time; a worker
\* thread takes its next step at any moment.

\* a thread as threading.Thread(target=worker) starts it: position, the
\* submit_job call it serves (n), and the locals it fills in
Worker(kind, pc, n) ==
    [kind |-> kind, pc |-> pc, n |-> n, id |-> NoJobId, status |-> Absent,
     msg |-> Absent, file |-> NoJobId]
Start(ts, t) == ts (+) SetToBag({t})
Exit(ts, t) == ts (-) SetToBag({t})
Workers == BagToSet(threads)
\* thread t takes a step: one thread in t's state fewer
Steps(t) == CopiesIn(t, threads') < CopiesIn(t, threads)

\* cmds.evalDeferred(fn): fn joins the queue Maya runs on its main thread
evalDeferred(q, fn) == Append(q, fn)
Method(name) == [NoCall EXCEPT !.fn = name]
StatusCall(event, progress, msg) ==
    [NoCall EXCEPT !.fn = "status_callback", !.event = event,
                   !.progress = progress, !.msg = msg]
ResultCall(cb, success, msg, file) ==
    [NoCall EXCEPT !.fn = "result_callback", !.cb = cb, !.success = success,
                   !.msg = msg, !.file = file]

\* if self.status_callback: evalDeferred(lambda: callback(event, progress))
DeferStatus(q, event, progress, msg) ==
    IF client.status_callback # Null
    THEN evalDeferred(q, StatusCall(event, progress, msg))
    ELSE q

\* callback = self.result_callback; if callback: evalDeferred(lambda: cb(...))
DeferResult(q, success, msg, file) ==
    IF client.result_callback # NoCallback
    THEN evalDeferred(q, ResultCall(client.result_callback, success, msg, file))
    ELSE q

\* submit_job(usd_path, epw_path, callback), lines 94 and 135-136; the
\* callback is none, or one that names the call
client_submit_job ==
    \E callback \in {NoCallback, submits + 1} :
        /\ main = "idle"
        /\ submits < Resubmits
        /\ client' = [client EXCEPT !.result_callback = callback]
        /\ threads' = Start(threads, Worker("submit", "L102", submits + 1))
        /\ submits' = submits + 1
        /\ stopped' = FALSE
        /\ UNCHANGED <<ovars, uvars, main, deferred, idle_jobs, host, net,
                       polls, saved, completed>>

\* submit worker, lines 102-115: read the two files, POST them; the server
\* answers the n-th call's upload with job id n
submit_worker_102 ==
    \E t \in Workers :
        /\ t.kind = "submit" /\ t.pc = "L102"
        /\ \E outcome \in {"unreadable", "refused", "accepted"} :
             /\ threads' = Start(Exit(threads, t),
                   CASE outcome = "unreadable" ->
                          [t EXCEPT !.pc = "L127", !.msg = "No such file or directory"]
                     [] outcome = "refused" ->
                          [t EXCEPT !.pc = "L127", !.msg = "Connection refused"]
                     [] outcome = "accepted" ->
                          [t EXCEPT !.pc = "L117", !.id = t.n])
             /\ net' = IF outcome = "unreadable" THEN net
                       ELSE [kind |-> "submit", id |-> NoJobId, ctx |-> "worker"]
        /\ UNCHANGED <<ovars, uvars, stopped, client, main, deferred,
                       idle_jobs, host, submits, polls, saved, completed>>

\* line 117
submit_worker_117 ==
    \E t \in Workers :
        /\ t.kind = "submit" /\ t.pc = "L117"
        /\ client' = [client EXCEPT !.current_job_id = t.id]
        /\ threads' = Start(Exit(threads, t), [t EXCEPT !.pc = "L124"])
        /\ UNCHANGED <<ovars, uvars, stopped, main, deferred, idle_jobs, host,
                       net, submits, polls, saved, completed>>

\* line 124
submit_worker_124 ==
    \E t \in Workers :
        /\ t.kind = "submit" /\ t.pc = "L124"
        /\ deferred' = evalDeferred(deferred, Method("start_polling"))
        /\ threads' = Exit(threads, t)
        /\ UNCHANGED <<ovars, uvars, stopped, client, main, idle_jobs, host,
                       net, submits, polls, saved, completed>>

\* lines 126-133 starting the upload again
submit_worker_127_retry ==
    \E t \in Workers :
        /\ t.kind = "submit" /\ t.pc = "L127"
        /\ threads' = Start(Exit(threads, t), [t EXCEPT !.pc = "L102", !.msg = Absent])
        /\ UNCHANGED <<ovars, uvars, stopped, client, main, deferred,
                       idle_jobs, host, net, submits, polls, saved, completed>>

\* lines 126-133: the upload raised
submit_worker_127 ==
    \E t \in Workers :
        /\ t.kind = "submit" /\ t.pc = "L127"
        /\ deferred' = DeferResult(deferred, FALSE, t.msg, NoJobId)
        /\ threads' = Exit(threads, t)
        /\ UNCHANGED <<ovars, uvars, stopped, client, main, idle_jobs, host,
                       net, submits, polls, saved, completed>>

\* stop_polling as a whole, lines 288-296
stop_polling(c) ==
    [c EXCEPT !.timer_id = Null, !.current_job_id = NoJobId,
              !.result_callback = NoCallback]

\* check_status on the calling thread, lines 143-144 and 210-213: no job, no
\* poll; else a poll worker
check_status(c, ts) ==
    IF c.current_job_id = NoJobId THEN ts ELSE Start(ts, Worker("poll", "L149", 0))

\* Maya runs the deferred start_polling, lines 280-284
start_polling ==
    /\ main = "idle"
    /\ deferred # << >> /\ Head(deferred).fn = "start_polling"
    /\ deferred' = Tail(deferred)
    /\ LET c == IF client.timer_id # Null THEN stop_polling(client) ELSE client IN
       /\ client' = c
       /\ threads' = check_status(c, threads)
    /\ UNCHANGED <<ovars, uvars, stopped, main, idle_jobs, host, net, submits,
                   polls, saved, completed>>

\* Maya runs the deferred _schedule_next_poll, line 217: a runOnce scriptJob
\* on the idle event
schedule_next_poll ==
    /\ main = "idle"
    /\ deferred # << >> /\ Head(deferred).fn = "_schedule_next_poll"
    /\ deferred' = Tail(deferred)
    /\ idle_jobs' = idle_jobs + 1
    /\ UNCHANGED <<ovars, uvars, stopped, client, main, threads, host, net,
                   submits, polls, saved, completed>>

\* Maya's idle event runs one of the scriptJobs: check_status()
idle_event ==
    /\ main = "idle"
    /\ idle_jobs > 0
    /\ idle_jobs' = idle_jobs - 1
    /\ threads' = check_status(client, threads)
    /\ UNCHANGED <<ovars, uvars, stopped, client, main, deferred, host, net,
                   submits, polls, saved, completed>>

\* solar_ui.py on_status_update, lines 157-160: the run button after an event
setEnabled(btn, event) ==
    IF event \in {"queued", "processing", "downloading"} THEN FALSE
    ELSE IF event \in {"complete", "error"} THEN TRUE
    ELSE btn

\* Maya runs a deferred callback: the host receives the call.  The status
\* callback is the UI's on_status_update; a result callback is counted.
deliver_callback ==
    /\ main = "idle"
    /\ deferred # << >>
    /\ Head(deferred).fn \in {"status_callback", "result_callback"}
    /\ deferred' = Tail(deferred)
    /\ host' = [call |-> Head(deferred), ctx |-> "main"]
    /\ btn_run' = IF Head(deferred).fn = "status_callback"
                  THEN setEnabled(btn_run, Head(deferred).event)
                  ELSE btn_run
    /\ delivered' = IF Head(deferred).fn = "result_callback"
                    THEN [delivered EXCEPT ![Head(deferred).cb] = @ + 1]
                    ELSE delivered
    /\ UNCHANGED <<ovars, stopped, client, main, threads, idle_jobs, net, submits, polls,
                   saved, completed>>

\* the host calls stop_polling, lines 288-295
client_stop_polling ==
    /\ main = "idle"
    /\ client' = [client EXCEPT !.timer_id = Null, !.current_job_id = NoJobId]
    /\ main' = "L296"
    /\ stopped' = TRUE
    /\ UNCHANGED <<ovars, uvars, threads, deferred, idle_jobs, host, net,
                   submits, polls, saved, completed>>

\* line 296
client_stop_polling_296 ==
    /\ main = "L296"
    /\ client' = [client EXCEPT !.result_callback = NoCallback]
    /\ main' = "idle"
    /\ UNCHANGED <<ovars, uvars, stopped, threads, deferred, idle_jobs, host,
                   net, submits, polls, saved, completed>>

\* the host calls get_server_status, lines 303-307: a GET on the calling thread
get_server_status ==
    /\ main = "idle"
    /\ net' = [kind |-> "root", id |-> NoJobId, ctx |-> "main"]
    /\ UNCHANGED <<ovars, uvars, stopped, client, main, threads, deferred,
                   idle_jobs, host, submits, polls, saved, completed>>

\* what GET /status/<id> may give the poll worker: a body, or an exception
\* ("raised"); the id None names no job
StatusReplies(id) ==
    IF id = NoJobId
    THEN {[status |-> "raised", error |-> "HTTP Error 404: Not Found"]}
    ELSE {[status |-> "queued", error |-> Absent],
          [status |-> "processing", error |-> Absent],
          [status |-> "complete", error |-> Absent],
          [status |-> "error", error |-> "analysis failed"],
          [status |-> "error", error |-> Absent],
          [status |-> "raised", error |-> "timed out"]}

\* the branch of lines 153-208 a reply leads to
Branch(status) ==
    CASE status = "queued" -> "L153"
      [] status = "processing" -> "L160"
      [] status = "complete" -> "L169"
      [] status = "error" -> "L182"
      [] status = "raised" -> "L205"

\* poll worker, lines 149-150: the URL from current_job_id, the request sent
poll_worker_149 ==
    \E t \in Workers :
        /\ t.kind = "poll" /\ t.pc = "L149"
        /\ polls < MaxPolls
        /\ LET id == client.current_job_id IN
           /\ threads' = Start(Exit(threads, t), [t EXCEPT !.pc = "L150", !.id = id])
           /\ net' = [kind |-> "status", id |-> id, ctx |-> "worker"]
        /\ polls' = polls + 1
        /\ UNCHANGED <<ovars, uvars, stopped, client, main, deferred,
                       idle_jobs, host, submits, saved, completed>>

\* lines 150-151: the reply, and its status
poll_worker_150 ==
    \E t \in Workers :
        /\ t.kind = "poll" /\ t.pc = "L150"
        /\ \E r \in StatusReplies(t.id) :
             /\ threads' = Start(Exit(threads, t),
                   [t EXCEPT !.pc = Branch(r.status),
                             !.status = IF r.status = "raised" THEN Absent
                                        ELSE r.status,
                             !.msg = r.error])
             /\ completed' = IF r.status = "complete" THEN completed \cup {t.id}
                             ELSE completed
        /\ UNCHANGED <<ovars, uvars, stopped, client, main, deferred,
                       idle_jobs, host, net, submits, polls, saved>>

\* lines 153-158 with `return False` for line 203
poll_worker_153_no_poll ==
    \E t \in Workers :
        /\ t.kind = "poll" /\ t.pc = "L153"
        /\ deferred' = DeferStatus(deferred, "queued", 0, Absent)
        /\ threads' = Exit(threads, t)
        /\ UNCHANGED <<ovars, uvars, stopped, client, main, idle_jobs, host,
                       net, submits, polls, saved, completed>>

\* lines 153-158 and 203
poll_worker_153 ==
    \E t \in Workers :
        /\ t.kind = "poll" /\ t.pc = "L153"
        /\ deferred' = evalDeferred(DeferStatus(deferred, "queued", 0, Absent),
                                    Method("_schedule_next_poll"))
        /\ threads' = Exit(threads, t)
        /\ UNCHANGED <<ovars, uvars, stopped, client, main, idle_jobs, host,
                       net, submits, polls, saved, completed>>

\* lines 160-167 and 203
poll_worker_160 ==
    \E t \in Workers :
        /\ t.kind = "poll" /\ t.pc = "L160"
        /\ deferred' = evalDeferred(DeferStatus(deferred, "processing", 50, Absent),
                                    Method("_schedule_next_poll"))
        /\ threads' = Exit(threads, t)
        /\ UNCHANGED <<ovars, uvars, stopped, client, main, idle_jobs, host,
                       net, submits, polls, saved, completed>>

\* lines 169-180: download_result() starts the download worker; it serves
\* the call whose job the status response was about
poll_worker_169 ==
    \E t \in Workers :
        /\ t.kind = "poll" /\ t.pc = "L169"
        /\ deferred' = DeferStatus(deferred, "downloading", 75, Absent)
        /\ threads' = Start(Exit(threads, t), Worker("download", "L224", t.id))
        /\ UNCHANGED <<ovars, uvars, stopped, client, main, idle_jobs, host,
                       net, submits, polls, saved, completed>>

\* lines 182-200 with the result callback called where it is read
poll_worker_182_direct ==
    \E t \in Workers :
        /\ t.kind = "poll" /\ t.pc = "L182"
        /\ LET error_msg == IF t.msg = Absent THEN "Unknown error" ELSE t.msg IN
           /\ deferred' = DeferStatus(deferred, "error", 0, error_msg)
           /\ host' = IF client.result_callback # NoCallback
                      THEN [call |-> ResultCall(client.result_callback, FALSE,
                                                error_msg, NoJobId),
                            ctx |-> "worker"]
                      ELSE host
        /\ threads' = Exit(threads, t)
        /\ UNCHANGED <<ovars, uvars, stopped, client, main, idle_jobs, net,
                       submits, polls, saved, completed>>

\* lines 182-200 without `return False`: line 203 is reached
poll_worker_182_repoll ==
    \E t \in Workers :
        /\ t.kind = "poll" /\ t.pc = "L182"
        /\ LET error_msg == IF t.msg = Absent THEN "Unknown error" ELSE t.msg IN
           deferred' = evalDeferred(
                          DeferResult(DeferStatus(deferred, "error", 0, error_msg),
                                      FALSE, error_msg, NoJobId),
                          Method("_schedule_next_poll"))
        /\ threads' = Exit(threads, t)
        /\ UNCHANGED <<ovars, uvars, stopped, client, main, idle_jobs, host,
                       net, submits, polls, saved, completed>>

\* lines 182-200; status_data.get("error", "Unknown error")
poll_worker_182 ==
    \E t \in Workers :
        /\ t.kind = "poll" /\ t.pc = "L182"
        /\ LET error_msg == IF t.msg = Absent THEN "Unknown error" ELSE t.msg IN
           deferred' = DeferResult(DeferStatus(deferred, "error", 0, error_msg),
                                   FALSE, error_msg, NoJobId)
        /\ threads' = Exit(threads, t)
        /\ UNCHANGED <<ovars, uvars, stopped, client, main, idle_jobs, host,
                       net, submits, polls, saved, completed>>

\* lines 205-208 giving up: the failure reported, no poll scheduled
poll_worker_205_stop ==
    \E t \in Workers :
        /\ t.kind = "poll" /\ t.pc = "L205"
        /\ deferred' = DeferResult(deferred, FALSE, t.msg, NoJobId)
        /\ threads' = Exit(threads, t)
        /\ UNCHANGED <<ovars, uvars, stopped, client, main, idle_jobs, host,
                       net, submits, polls, saved, completed>>

\* lines 205-208: the request raised
poll_worker_205 ==
    \E t \in Workers :
        /\ t.kind = "poll" /\ t.pc = "L205"
        /\ deferred' = evalDeferred(deferred, Method("_schedule_next_poll"))
        /\ threads' = Exit(threads, t)
        /\ UNCHANGED <<ovars, uvars, stopped, client, main, idle_jobs, host,
                       net, submits, polls, saved, completed>>

\* download worker, lines 224-225: the URL from current_job_id, the request
download_worker_224 ==
    \E t \in Workers :
        /\ t.kind = "download" /\ t.pc = "L224"
        /\ LET id == client.current_job_id IN
           /\ \E served \in BOOLEAN :
                threads' = Start(Exit(threads, t),
                   IF served /\ id # NoJobId
                   THEN [t EXCEPT !.pc = "L228", !.id = id]
                   ELSE [t EXCEPT !.pc = "L266", !.id = id, !.msg = "HTTP Error"])
           /\ net' = [kind |-> "result", id |-> id, ctx |-> "worker"]
        /\ UNCHANGED <<ovars, uvars, stopped, client, main, deferred,
                       idle_jobs, host, submits, polls, saved, completed>>

\* lines 228-250: the file name from current_job_id, the file written
download_worker_228 ==
    \E t \in Workers :
        /\ t.kind = "download" /\ t.pc = "L228"
        /\ LET file == client.current_job_id IN
           \E io_ok \in BOOLEAN :
              IF io_ok
              THEN /\ saved' = saved \cup {file}
                   /\ threads' = Start(Exit(threads, t),
                                       [t EXCEPT !.pc = "L255", !.file = file])
              ELSE /\ threads' = Start(Exit(threads, t),
                                       [t EXCEPT !.pc = "L266", !.msg = "Permission denied"])
                   /\ UNCHANGED saved
        /\ UNCHANGED <<ovars, uvars, stopped, client, main, deferred,
                       idle_jobs, host, net, submits, polls, completed>>

\* lines 255-264 with the result callback deferred before the status event
download_worker_255_result_first ==
    \E t \in Workers :
        /\ t.kind = "download" /\ t.pc = "L255"
        /\ deferred' = DeferStatus(DeferResult(deferred, TRUE, Absent, t.file),
                                   "complete", 100, Absent)
        /\ threads' = Exit(threads, t)
        /\ UNCHANGED <<ovars, uvars, stopped, client, main, idle_jobs, host,
                       net, submits, polls, saved, completed>>

\* lines 255-264
download_worker_255 ==
    \E t \in Workers :
        /\ t.kind = "download" /\ t.pc = "L255"
        /\ deferred' = DeferResult(DeferStatus(deferred, "complete", 100, Absent),
                                   TRUE, Absent, t.file)
        /\ threads' = Exit(threads, t)
        /\ UNCHANGED <<ovars, uvars, stopped, client, main, idle_jobs, host,
                       net, submits, polls, saved, completed>>

\* lines 266-268 alone: the failure printed, nobody told
download_worker_266_silent ==
    \E t \in Workers :
        /\ t.kind = "download" /\ t.pc = "L266"
        /\ threads' = Exit(threads, t)
        /\ UNCHANGED <<ovars, uvars, stopped, client, main, deferred,
                       idle_jobs, host, net, submits, polls, saved, completed>>

\* lines 266-273: the download raised
download_worker_266 ==
    \E t \in Workers :
        /\ t.kind = "download" /\ t.pc = "L266"
        /\ deferred' = DeferResult(deferred, FALSE, t.msg, NoJobId)
        /\ threads' = Exit(threads, t)
        /\ UNCHANGED <<ovars, uvars, stopped, client, main, idle_jobs, host,
                       net, submits, polls, saved, completed>>

NextClient ==
    \/ submits < MaxSubmits /\ client_submit_job
    \/ client_stop_polling
    \/ client_stop_polling_296
    \/ get_server_status
    \/ start_polling
    \/ schedule_next_poll
    \/ idle_event
    \/ deliver_callback
    \/ submit_worker_102
    \/ submit_worker_117
    \/ submit_worker_124
    \/ submit_worker_127
    \/ poll_worker_149
    \/ poll_worker_150
    \/ poll_worker_153
    \/ poll_worker_160
    \/ poll_worker_169
    \/ poll_worker_182
    \/ poll_worker_205
    \/ download_worker_224
    \/ download_worker_228
    \/ download_worker_255
    \/ download_worker_266

\* the client, its host and its worker threads, against any server
SpecClient == InitClient /\ [][NextClient]_vars

\* the same, the host calling submit_job once more
NextResubmit ==
    \/ client_submit_job
    \/ client_stop_polling
    \/ client_stop_polling_296
    \/ get_server_status
    \/ start_polling
    \/ schedule_next_poll
    \/ idle_event
    \/ deliver_callback
    \/ submit_worker_102
    \/ submit_worker_117
    \/ submit_worker_124
    \/ submit_worker_127
    \/ poll_worker_149
    \/ poll_worker_150
    \/ poll_worker_153
    \/ poll_worker_160
    \/ poll_worker_169
    \/ poll_worker_182
    \/ poll_worker_205
    \/ download_worker_224
    \/ download_worker_228
    \/ download_worker_255
    \/ download_worker_266
SpecResubmit == InitClient /\ [][NextResubmit]_vars

----------------------------------------------------------------------------
\* usd_io.results_to_colors and ecotect_color, run on their own.  A float is
\* the exact fraction n/d it stands for (rounding is not modelled); d = 0 is
\* NaN, and root marks the square root of n/d where that is no fraction.

RECURSIVE GCD(_, _)
GCD(a, b) == IF b = 0 THEN a ELSE GCD(b, a % b)
Abs(x) == IF x < 0 THEN 0 - x ELSE x

NaN == [n |-> 0, d |-> 0, root |-> FALSE]
Float(n, d) ==
    IF d = 0 THEN NaN
    ELSE LET sign == IF d < 0 THEN 0 - 1 ELSE 1
             g == GCD(Abs(n), Abs(d))
         IN [n |-> (sign * n) \div g, d |-> (sign * d) \div g, root |-> FALSE]
IsNaN(a) == a.d = 0

Add(a, b) == Float(a.n * b.d + b.n * a.d, a.d * b.d)
Sub(a, b) == Float(a.n * b.d - b.n * a.d, a.d * b.d)
Mul(a, b) == Float(a.n * b.n, a.d * b.d)
\* numpy's true_divide: 0/0 is NaN (with a RuntimeWarning)
TrueDivide(a, b) == IF b.n = 0 THEN NaN ELSE Float(a.n * b.d, a.d * b.n)
\* a comparison with NaN is False
Less(a, b) == ~IsNaN(a) /\ ~IsNaN(b) /\ a.n * b.d < b.n * a.d
LessEq(a, b) == ~IsNaN(a) /\ ~IsNaN(b) /\ a.n * b.d <= b.n * a.d
\* Python's min(a, b) and max(a, b): a, unless b compares below (above) it
min(a, b) == IF Less(b, a) THEN b ELSE a
max(a, b) == IF Less(a, b) THEN b ELSE a
\* np.minimum, np.maximum and np.abs hand a NaN on
minimum(a, b) == IF IsNaN(a) \/ IsNaN(b) THEN NaN ELSE min(a, b)
maximum(a, b) == IF IsNaN(a) \/ IsNaN(b) THEN NaN ELSE max(a, b)
abs(a) == Float(Abs(a.n), a.d)
\* int(x) of a float that is not negative
int(a) == a.n \div a.d
sqrt(a) ==
    LET Squares(k) == {r \in 0..k : r * r = k} IN
    IF IsNaN(a) THEN NaN
    ELSE IF Squares(a.n) # {} /\ Squares(a.d) # {}
    THEN Float(CHOOSE r \in Squares(a.n) : TRUE, CHOOSE r \in Squares(a.d) : TRUE)
    ELSE [a EXCEPT !.root = TRUE]

\* ecotect_colors, lines 105-117, each component in 255ths
ecotect_colors ==
    << <<0, 0, 255>>, <<53, 0, 202>>, <<107, 0, 148>>, <<160, 0, 95>>,
       <<214, 0, 41>>, <<255, 12, 0>>, <<255, 66, 0>>, <<255, 119, 0>>,
       <<255, 173, 0>>, <<255, 226, 0>>, <<255, 255, 0>> >>
Stop(i) == [c \in 1..3 |-> Float(ecotect_colors[i][c], 255)]

\* ecotect_color read from the last stop down
ecotect_color_reversed(normalized_value) ==
    LET val == max(Float(0, 1), min(Float(1, 1), normalized_value)) IN
    IF LessEq(val, Float(0, 1)) THEN Stop(Len(ecotect_colors))
    ELSE IF LessEq(Float(1, 1), val) THEN Stop(1)
    ELSE Stop(Len(ecotect_colors) - int(Mul(val, Float(10, 1))))

\* ecotect_color without lines 134-141: the colour of the stop below
ecotect_color_stepped(normalized_value) ==
    LET val == max(Float(0, 1), min(Float(1, 1), normalized_value))
        num_segments == Len(ecotect_colors) - 1
        segment_index == int(Mul(val, Float(num_segments, 1)))
    IN IF LessEq(val, Float(0, 1)) THEN Stop(1)
       ELSE IF LessEq(Float(1, 1), val) THEN Stop(Len(ecotect_colors))
       ELSE IF segment_index >= num_segments THEN Stop(Len(ecotect_colors))
       ELSE Stop(segment_index + 1)

\* ecotect_color, lines 119-142
ecotect_color(normalized_value) ==
    LET val == max(Float(0, 1), min(Float(1, 1), normalized_value))
        num_segments == Len(ecotect_colors) - 1
        segment == Mul(val, Float(num_segments, 1))
        segment_index == int(segment)
        t == Sub(segment, Float(segment_index, 1))
        color1 == Stop(segment_index + 1)
        color2 == Stop(segment_index + 2)
    IN IF LessEq(val, Float(0, 1)) THEN Stop(1)
       ELSE IF LessEq(Float(1, 1), val) THEN Stop(Len(ecotect_colors))
       ELSE IF segment_index >= num_segments THEN Stop(Len(ecotect_colors))
       ELSE [c \in 1..3 |-> Add(color1[c], Mul(t, Sub(color2[c], color1[c])))]

\* results.max() and results.min() of an array that is not empty
Max(results) ==
    CHOOSE x \in {results[i] : i \in 1..Len(results)} :
        \A i \in 1..Len(results) : results[i] <= x
Min(results) ==
    CHOOSE x \in {results[i] : i \in 1..Len(results)} :
        \A i \in 1..Len(results) : x <= results[i]

\* lines 157-160 without the test of line 157
normalize_unguarded(results) ==
    [i \in 1..Len(results) |->
        TrueDivide(Float(results[i] - Min(results), 1),
                   Float(Max(results) - Min(results), 1))]

\* lines 157-160
normalize(results) ==
    IF Max(results) > Min(results)
    THEN [i \in 1..Len(results) |->
            TrueDivide(Float(results[i] - Min(results), 1),
                       Float(Max(results) - Min(results), 1))]
    ELSE [i \in 1..Len(results) |-> Float(1, 2)]

\* the colormap names the code knows, and two it does not
Known == {"ecotect", "viridis", "plasma", "hot", "cool"}
Colormaps == Known \cup {"custom", "jet"}

\* lines 193-197, the else branch
blue_to_red(v) == <<v, Float(0, 1), Sub(Float(1, 1), v)>>

\* lines 164-197 with the default mapping, ecotect, in the else branch
colorize_default_ecotect(colormap, v) ==
    CASE colormap = "viridis" -> <<v, sqrt(v), Sub(Float(1, 1), v)>>
      [] colormap = "plasma" -> <<v, Mul(v, v), Sub(Float(1, 1), v)>>
      [] colormap = "hot" ->
            <<minimum(Float(1, 1), Mul(v, Float(3, 1))),
              maximum(Float(0, 1), Mul(Sub(v, Float(33, 100)), Float(3, 1))),
              maximum(Float(0, 1), Mul(Sub(v, Float(66, 100)), Float(3, 1)))>>
      [] colormap = "cool" ->
            <<v, Sub(Float(1, 1), Mul(abs(Sub(v, Float(1, 2))), Float(2, 1))),
              Sub(Float(1, 1), v)>>
      [] OTHER -> ecotect_color(v)

\* lines 164-197: the colour of one face
colorize(colormap, v) ==
    CASE colormap = "ecotect" -> ecotect_color(v)
      [] colormap = "viridis" -> <<v, sqrt(v), Sub(Float(1, 1), v)>>
      [] colormap = "plasma" -> <<v, Mul(v, v), Sub(Float(1, 1), v)>>
      [] colormap = "hot" ->
            <<minimum(Float(1, 1), Mul(v, Float(3, 1))),
              maximum(Float(0, 1), Mul(Sub(v, Float(33, 100)), Float(3, 1))),
              maximum(Float(0, 1), Mul(Sub(v, Float(66, 100)), Float(3, 1)))>>
      [] colormap = "cool" ->
            <<v, Sub(Float(1, 1), Mul(abs(Sub(v, Float(1, 2))), Float(2, 1))),
              Sub(Float(1, 1), v)>>
      [] OTHER -> blue_to_red(v)

ResultArrays == UNION {[1..n -> 0..MaxHours] : n \in 0..MaxFaces}

\* results_to_colors(results, colormap) about to run
InitColors ==
    /\ ServerInit /\ ClientInit(OnStatus)
    /\ \E results \in ResultArrays, colormap \in Colormaps :
          run = [fn |-> "results_to_colors", pc |-> "L157", results |-> results,
                 colormap |-> colormap, normalized |-> << >>, colors |-> << >>]

\* lines 157-160; max() of an empty array raises ValueError
results_to_colors_157 ==
    /\ run.fn = "results_to_colors" /\ run.pc = "L157"
    /\ run' = IF run.results = << >>
              THEN [run EXCEPT !.pc = "raised"]
              ELSE [run EXCEPT !.pc = "L162", !.normalized = normalize(run.results)]
    /\ UNCHANGED <<svars, cvars>>

\* lines 162-199
results_to_colors_162 ==
    /\ run.fn = "results_to_colors" /\ run.pc = "L162"
    /\ run' = [run EXCEPT !.pc = "done",
                          !.colors = [i \in 1..Len(run.results) |->
                                        colorize(run.colormap, run.normalized[i])]]
    /\ UNCHANGED <<svars, cvars>>

NextColors ==
    \/ results_to_colors_157
    \/ results_to_colors_162

SpecColors == InitColors /\ [][NextColors]_vars

----------------------------------------------------------------------------
\* usd_io.ecotect_color(normalized_value), run on its own on the multiples of
\* 1/Grid from -1 to 2 and on NaN.

NormalizedValues == {Float(n, Grid) : n \in (0 - Grid)..(2 * Grid)} \cup {NaN}

InitEcotect ==
    /\ ServerInit /\ ClientInit(OnStatus)
    /\ \E normalized_value \in NormalizedValues :
          run = [fn |-> "ecotect_color", pc |-> "L119",
                 normalized_value |-> normalized_value, ret |-> << >>]

\* lines 119-142
ecotect_color_119 ==
    /\ run.fn = "ecotect_color" /\ run.pc = "L119"
    /\ run' = [run EXCEPT !.pc = "returned",
                          !.ret = ecotect_color(run.normalized_value)]
    /\ UNCHANGED <<svars, cvars>>

NextEcotect == ecotect_color_119

SpecEcotect == InitEcotect /\ [][NextEcotect]_vars

----------------------------------------------------------------------------
\* pipeline.analyze_solar_scene(usd_path, output_path=None), run on its own.
\* A path is its base name, a tag added to the base, and its extension.

Path(base, tag) == [base |-> base, tag |-> tag, ext |-> ".usda"]
\* output_path=None, and a local no statement has assigned yet
NoPath == [base |-> "", tag |-> "", ext |-> ""]
\* f"{os.path.splitext(p)[0]}_results.usda" and ..."_results.csv"
ResultsUsd(p) == [base |-> p.base, tag |-> p.tag \o "_results", ext |-> ".usda"]
ResultsCsv(p) == [base |-> p.base, tag |-> p.tag \o "_results", ext |-> ".csv"]

UsdPaths == {Path("scene", ""), Path("solar_analysis", "")}
OutputPaths == {NoPath, Path("out", ""), Path("scene", "_results")}

\* analyze_solar_scene(usd_path, output_path) about to run
InitAnalyze ==
    /\ ServerInit /\ ClientInit(OnStatus)
    /\ \E usd_path \in UsdPaths, output_path \in OutputPaths,
          sc \in SubmitScenes, engine \in Engines, epw \in BOOLEAN :
          run = [fn |-> "analyze_solar_scene", pc |-> "L24",
                 args |-> [usd_path |-> usd_path, output_path |-> output_path],
                 usd_path |-> usd_path, output_path |-> output_path,
                 csv_path |-> NoPath, scene |-> sc, engine |-> engine,
                 files |-> IF epw THEN {SceneFile, EpwFile} ELSE {SceneFile},
                 written |-> {}, ret |-> NoPath, exc |-> Absent]

\* lines 24-46: read the scene, run the analysis; a failure returns None
analyze_solar_scene_24 ==
    /\ run.fn = "analyze_solar_scene" /\ run.pc = "L24"
    /\ run' = IF analyze_read_and_run(run.files, run.scene, run.engine).returned
              THEN [run EXCEPT !.pc = "returned"]
              ELSE [run EXCEPT !.pc = "L50"]
    /\ UNCHANGED <<svars, cvars>>

\* lines 50-53: both paths are set when output_path is None, else neither
analyze_solar_scene_50 ==
    /\ run.fn = "analyze_solar_scene" /\ run.pc = "L50"
    /\ run' = IF run.output_path = NoPath
              THEN [run EXCEPT !.pc = "L55",
                               !.output_path = ResultsUsd(run.usd_path),
                               !.csv_path = ResultsCsv(run.usd_path)]
              ELSE [run EXCEPT !.pc = "L55"]
    /\ UNCHANGED <<svars, cvars>>

\* write_results_to_usd with the path it is given
write_results_to_usd(input_usd_path, output_usd_path) ==
    IF output_usd_path = NoPath THEN ResultsUsd(input_usd_path)
    ELSE output_usd_path

\* line 55: write_results_to_usd(usd_path, results, output_usd_path=None)
analyze_solar_scene_55 ==
    /\ run.fn = "analyze_solar_scene" /\ run.pc = "L55"
    /\ \E io_ok \in BOOLEAN :
         run' = IF io_ok
                THEN [run EXCEPT !.pc = "L56",
                         !.written = @ \cup {write_results_to_usd(run.usd_path,
                                                                  NoPath)}]
                ELSE [run EXCEPT !.pc = "raised",
                                 !.exc = "write_results_to_usd failed"]
    /\ UNCHANGED <<svars, cvars>>

\* line 56: write_results_csv(csv_path, results); csv_path may have no value
analyze_solar_scene_56 ==
    /\ run.fn = "analyze_solar_scene" /\ run.pc = "L56"
    /\ \E io_ok \in BOOLEAN :
         run' = IF run.csv_path = NoPath
                THEN [run EXCEPT !.pc = "raised", !.exc = "UnboundLocalError"]
                ELSE IF io_ok
                THEN [run EXCEPT !.pc = "L64", !.written = @ \cup {run.csv_path}]
                ELSE [run EXCEPT !.pc = "raised",
                                 !.exc = "write_results_csv failed"]
    /\ UNCHANGED <<svars, cvars>>

\* line 64
analyze_solar_scene_64 ==
    /\ run.fn = "analyze_solar_scene" /\ run.pc = "L64"
    /\ run' = [run EXCEPT !.pc = "returned", !.ret = run.output_path]
    /\ UNCHANGED <<svars, cvars>>

NextAnalyze ==
    \/ analyze_solar_scene_24
    \/ analyze_solar_scene_50
    \/ analyze_solar_scene_55
    \/ analyze_solar_scene_56
    \/ analyze_solar_scene_64

SpecAnalyze == InitAnalyze /\ [][NextAnalyze]_vars

----------------------------------------------------------------------------
\* engine.run_optix_analysis(scene_data, optix_module), run on its own, one
\* step per check.  scene_data is read by the arrays that hold a NaN or an
\* Inf (sun_vectors: what get_sun_vectors makes of the epw file) and by the
\* state of the epw file its solar:epwFile names.

EpwStates == {"ok", "missing", "unreadable"}

InitEngine ==
    /\ ServerInit /\ ClientInit(OnStatus)
    /\ \E bad \in SUBSET ArrayNames, epw \in EpwStates,
          engine \in {"ok", "analyze_fail"} :
          run = [fn |-> "run_optix_analysis", pc |-> "L116", bad |-> bad,
                 epw |-> epw, engine |-> engine, analyzed |-> FALSE,
                 exc |-> Absent]

\* a statement that raises: the call ends with the exception's message
Raise(r, msg) == [r EXCEPT !.pc = "raised", !.exc = msg]

\* lines 142-149 as one check: array a, then on to line `next`
Validate(a, next) ==
    run' = IF a \in run.bad THEN Raise(run, InvalidMsg(a))
           ELSE [run EXCEPT !.pc = next]

\* lines 115-117: the epw file must exist
run_optix_analysis_116 ==
    /\ run.fn = "run_optix_analysis" /\ run.pc = "L116"
    /\ run' = IF run.epw = "missing"
              THEN Raise(run, "Missing or invalid epw file path")
              ELSE [run EXCEPT !.pc = "L119"]
    /\ UNCHANGED <<svars, cvars>>

\* lines 119-131: weather.get_sun_vectors parses the epw file
run_optix_analysis_119 ==
    /\ run.fn = "run_optix_analysis" /\ run.pc = "L119"
    /\ run' = IF run.epw = "unreadable"
              THEN Raise(run, "get_sun_vectors failed")
              ELSE [run EXCEPT !.pc = "L142"]
    /\ UNCHANGED <<svars, cvars>>

\* lines 142-143
run_optix_analysis_142 ==
    /\ run.fn = "run_optix_analysis" /\ run.pc = "L142"
    /\ Validate(Arrays[1], "L144")
    /\ UNCHANGED <<svars, cvars>>

\* lines 144-145
run_optix_analysis_144 ==
    /\ run.fn = "run_optix_analysis" /\ run.pc = "L144"
    /\ Validate(Arrays[2], "L146")
    /\ UNCHANGED <<svars, cvars>>

\* lines 146-147
run_optix_analysis_146 ==
    /\ run.fn = "run_optix_analysis" /\ run.pc = "L146"
    /\ Validate(Arrays[3], "L148")
    /\ UNCHANGED <<svars, cvars>>

\* lines 148-149 left out: the sun vectors go to the engine unchecked
run_optix_analysis_148_skipped ==
    /\ run.fn = "run_optix_analysis" /\ run.pc = "L148"
    /\ run' = [run EXCEPT !.pc = "L155"]
    /\ UNCHANGED <<svars, cvars>>

\* lines 148-149
run_optix_analysis_148 ==
    /\ run.fn = "run_optix_analysis" /\ run.pc = "L148"
    /\ Validate(Arrays[4], "L155")
    /\ UNCHANGED <<svars, cvars>>

\* lines 155-171: optix_module.analyze is called
run_optix_analysis_155 ==
    /\ run.fn = "run_optix_analysis" /\ run.pc = "L155"
    /\ run' = IF run.engine = "analyze_fail"
              THEN [Raise(run, "engine error") EXCEPT !.analyzed = TRUE]
              ELSE [run EXCEPT !.pc = "returned", !.analyzed = TRUE]
    /\ UNCHANGED <<svars, cvars>>

NextEngine ==
    \/ run_optix_analysis_116
    \/ run_optix_analysis_119
    \/ run_optix_analysis_142
    \/ run_optix_analysis_144
    \/ run_optix_analysis_146
    \/ run_optix_analysis_148
    \/ run_optix_analysis_155

SpecEngine == InitEngine /\ [][NextEngine]_vars

----------------------------------------------------------------------------
\* usd_io.read_target_mesh followed by engine.run_optix_analysis, as
\* analyze_solar_scene chains them.  A primvar of /Root/TargetMesh is read by
\* the number of its elements; Get() of a primvar the mesh does not have
\* returns None.

\* primvars.GetPrimvar(name).Get() of a primvar that is not authored
NoPrimvar == 0 - 1
Primvars == {NoPrimvar} \cup 0..MaxFaces

\* an array with no element holds no NaN and no Inf
CanHold(bad, centers, normals) ==
    /\ "face_centers" \in bad => centers > 0
    /\ "face_normals" \in bad => normals > 0

\* np.array([(p[0], p[1], p[2]) for p in primvar]): one row per element
Rows(primvar) == primvar

InitTarget ==
    /\ ServerInit /\ ClientInit(OnStatus)
    /\ \E centers \in Primvars, normals \in Primvars, bad \in SUBSET ArrayNames,
          epw \in EpwStates, engine \in {"ok", "analyze_fail"} :
          /\ CanHold(bad, centers, normals)
          /\ run = [fn |-> "read_target_mesh", pc |-> "L31", centers |-> centers,
                    normals |-> normals, face_centers |-> 0, face_normals |-> 0,
                    bad |-> bad, epw |-> epw, engine |-> engine,
                    analyzed |-> FALSE, exc |-> Absent]

\* usd_io.py lines 31-37: iterating None raises TypeError; no test compares
\* the two arrays.  Then pipeline.py 38-46 hands them to run_optix_analysis.
read_target_mesh_31 ==
    /\ run.fn = "read_target_mesh" /\ run.pc = "L31"
    /\ run' = IF run.centers = NoPrimvar \/ run.normals = NoPrimvar
              THEN Raise(run, "'NoneType' object is not iterable")
              ELSE [run EXCEPT !.fn = "run_optix_analysis", !.pc = "L116",
                               !.face_centers = Rows(run.centers),
                               !.face_normals = Rows(run.normals)]
    /\ UNCHANGED <<svars, cvars>>

NextTarget ==
    \/ read_target_mesh_31
    \/ NextEngine

SpecTarget == InitTarget /\ [][NextTarget]_vars

----------------------------------------------------------------------------
\* Properties of the job store and of process_job

Terminal == {"complete", "error"}
Ended == {"done", "raised"}

StatusOrder ==
    { << >>, <<"queued">>, <<"queued", "processing">>,
      <<"queued", "processing", "complete">>,
      <<"queued", "processing", "error">> }

\* C1: the status values a job's record holds over time are a prefix of
\* queued, processing, then one of complete or error; no step changes the
\* status of a record that is complete or error, and a process_job call that
\* has ended does not run again.
C1_StatusMonotone ==
    /\ [](\A j \in JobIds : hist[j] \in StatusOrder)
    /\ [][\A j \in JobIds :
            /\ (Has(jobs, j) /\ Has(jobs', j) /\ jobs[j].status \in Terminal)
                  => jobs'[j].status = jobs[j].status
            /\ task[j].pc \in Ended => task'[j].pc = task[j].pc]_vars

\* a failed job, its task ended, that an endpoint has since been asked about
C1_Witness ==
    \E j \in JobIds :
        /\ hist[j] = <<"queued", "processing", "error">>
        /\ task[j].pc = "done"
        /\ req.pc = "done" /\ req.op = "get_result" /\ req.id = j

\* C2: a record's result_path is non-null exactly when its status is
\* complete, in every state of the store.
C2_ResultPathIffComplete ==
    \A j \in DOMAIN jobs :
        (jobs[j].result_path # Null) <=> (jobs[j].status = "complete")

\* C3: a record's error is non-null exactly when its status is error, in
\* every state of the store.
C3_ErrorIffStatusError ==
    \A j \in DOMAIN jobs :
        (jobs[j].error # Null) <=> (jobs[j].status = "error")

\* C4: a job one of whose pipeline stages failed is left by process_job with
\* status error, an error message and a trace, never with status complete.
C4_PipelineFailureRecorded ==
    \A j \in DOMAIN jobs :
        task[j].failed # "none" =>
            /\ jobs[j].status # "complete"
            /\ task[j].pc = "done" =>
                  /\ jobs[j].status = "error"
                  /\ jobs[j].error # Null
                  /\ jobs[j].traceback # Null

\* C5: a job one of whose input arrays holds a NaN is never complete, and
\* once processed has status error with a message naming such an array.
C5_NaNInputRejected ==
    \A j \in DOMAIN jobs :
        scene[j].bad # {} =>
            /\ jobs[j].status # "complete"
            /\ task[j].pc = "done" =>
                  /\ jobs[j].status = "error"
                  /\ \E a \in scene[j].bad : jobs[j].error = InvalidMsg(a)

\* C6: no process_job call ends by raising to its caller.
C6_ProcessJobNeverRaises ==
    \A j \in JobIds : task[j].pc # "raised"

\* C7: an id whose DELETE has succeeded is never in the store again, and a
\* status or result query for it is answered 404.
C7_DeletedStaysGone ==
    /\ deleted \cap DOMAIN jobs = {}
    /\ (req.pc = "done" /\ req.op \in {"get_status", "get_result"}
            /\ req.id \in deleted)
          => req.resp.code = 404

\* a status query answered for a deleted id whose process_job is still running
C7_Witness ==
    /\ req.pc = "done" /\ req.op = "get_status"
    /\ req.id \in deleted
    /\ task[req.id].pc = "L69"

\* C8: a status, result or delete request for an id that is not in the store
\* is answered 404 at once and leaves the store as it was.
C8_UnknownIdNotFound ==
    [][(/\ Free
        /\ req' # req /\ req' # Idle
        /\ req'.op \in {"get_status", "get_result", "delete_job"}
        /\ ~Has(jobs, req'.id))
       => (req'.pc = "done" /\ req'.resp.code = 404 /\ jobs' = jobs)]_vars

\* DELETE of the id no job has, answered 404 with every job in the store
C8_Witness ==
    /\ req.pc = "done" /\ req.op = "delete_job" /\ req.id \notin JobIds
    /\ req.resp.code = 404
    /\ DOMAIN jobs = 1..MaxJobs

\* C9: GET /result for a job found queued, processing or error is answered
\* 400 with the job's status at that moment and no file; a file is sent only
\* for a job whose status is complete.
C9_ResultOnlyWhenComplete ==
    (req.op = "get_result" /\ req.pc = "done") =>
        /\ req.seen \in {"queued", "processing", "error"} =>
              /\ req.resp.code = 400
              /\ req.resp.status = jobs[req.id].status
              /\ req.resp.path = Absent
        /\ req.resp.path # Absent =>
              /\ req.resp.code = 200
              /\ Has(jobs, req.id)
              /\ jobs[req.id].status = "complete"

\* the 400 for a job in error
C9_Witness ==
    /\ req.op = "get_result" /\ req.pc = "done"
    /\ req.seen = "error"
    /\ req.resp.code = 400 /\ req.resp.status = "error"

\* C10: after a DELETE whose directory removal failed part-way, the job's
\* record is no longer in the store.
C10_FailedCleanupHidesRecord ==
    (req.op = "delete_job" /\ req.pc = "done" /\ req.resp = ServerError)
        => ~Has(jobs, req.id)

\* C11: an id whose DELETE has succeeded has neither a record nor a job
\* directory nor any file of one, from the moment the request is answered.
C11_DeletedLeavesNothing ==
    \A j \in deleted : ~Has(jobs, j) /\ disk[j] = NoDir

\* C12: process_job is scheduled for an id only by the POST /submit that
\* returns the id, in the step that has inserted the queued record and answers
\* "queued", and has not started by then; a scheduled call is not scheduled
\* again, and no call exists for an id that never had a record.
C12_ScheduledOncePerSubmit ==
    /\ [](\A j \in JobIds : task[j].pc # "none" => hist[j] # << >>)
    /\ [][\A j \in JobIds :
            /\ (task[j].pc = "none" /\ task'[j].pc # "none") =>
                  /\ task'[j].pc = "L47"
                  /\ Has(jobs', j) /\ jobs'[j].status = "queued"
                  /\ req'.pc = "done" /\ req'.op = "submit_job" /\ req'.id = j
                  /\ req'.resp.code = 200 /\ req'.resp.status = "queued"
            /\ task[j].pc # "none" =>
                  /\ task'[j].pc # "none"
                  /\ task'[j].pc = "L47" => task[j].pc = "L47"
            /\ (req'.op = "submit_job" /\ req' # req /\ req'.id = j) =>
                  (task[j].pc = "none" /\ task'[j].pc = "L47")]_vars

\* the answer to a POST /submit, the job's process_job call not yet started
C12_Witness ==
    /\ req.pc = "done" /\ req.op = "submit_job" /\ req.resp.status = "queued"
    /\ Has(jobs, req.id) /\ jobs[req.id].status = "queued"
    /\ task[req.id].pc = "L47"

\* C13: with every scheduled process_job call given its turn, a job in the
\* store is in the end complete or error, unless it is deleted first.
C13_EveryJobEnds ==
    \A j \in JobIds :
        Has(jobs, j) ~> (~Has(jobs, j) \/ jobs[j].status \in Terminal)

\* a job that ran to the end of process_job and is complete with its result
C13_Witness ==
    \E j \in DOMAIN jobs :
        /\ task[j].pc = "done"
        /\ jobs[j].status = "complete" /\ jobs[j].result_path = ResultFile

\* C14: the id a POST /submit returns has never had a record, deleted ones
\* included; the request adds one record, which is queued with result_path
\* and error null, and leaves every record already in the store as it was.
C14_SubmitFreshIdNewRecord ==
    [][(req'.op = "submit_job" /\ req' # req) =>
          LET id == req'.id IN
          /\ hist[id] = << >> /\ id \notin deleted /\ ~Has(jobs, id)
          /\ DOMAIN jobs' = DOMAIN jobs \cup {id}
          /\ jobs'[id].status = "queued"
          /\ jobs'[id].result_path = Null /\ jobs'[id].error = Null
          /\ \A k \in DOMAIN jobs : jobs'[k] = jobs[k]]_vars

\* the answer to a second POST /submit, the first job being processed
C14_Witness ==
    /\ req.pc = "done" /\ req.op = "submit_job" /\ req.id = 2
    /\ Has(jobs, 1) /\ jobs[1].status = "processing"
    /\ Has(jobs, 2) /\ jobs[2].status = "queued"

\* C15: a record's time stamps, where set, are in the order submitted_at,
\* started_at, completed_at; a record that is processing has its started_at,
\* and a record that is complete has its started_at and its completed_at.
C15_StampsOrderedAndSet ==
    \A j \in DOMAIN jobs :
        LET r == jobs[j]
            Before(a, b) == a[1] <= b[1]
        IN
        /\ r.started_at # NoTime => Before(r.submitted_at, r.started_at)
        /\ (r.started_at # NoTime /\ r.completed_at # NoTime)
              => Before(r.started_at, r.completed_at)
        /\ r.status = "processing" => r.started_at # NoTime
        /\ r.status = "complete"
              => (r.started_at # NoTime /\ r.completed_at # NoTime)

----------------------------------------------------------------------------
\* Properties of the client

\* C16: a submit worker whose upload raised (a file unreadable, the POST
\* failed) stores no job id and sends nothing more; its last step leaves one
\* call of the registered result callback with (False, the message) with
\* evalDeferred, starts no poll and no thread, and ends the worker; such a
\* call reaches the host from the head of the deferred queue, on the main
\* thread, and leaves the queue.
C16_UploadFailureReported ==
    /\ [][\A t \in Workers :
            (t.kind = "submit" /\ Steps(t)) =>
               /\ t.pc = "L102" =>
                    /\ \E u \in BagToSet(threads') :
                          /\ threads' = Start(Exit(threads, t), u)
                          /\ u.pc \in {"L117", "L127"}
                          /\ u.pc = "L127" => (u.msg # Absent /\ u.id = NoJobId)
                    /\ client' = client /\ deferred' = deferred
               /\ t.pc = "L127" =>
                    /\ deferred' =
                          IF client.result_callback # NoCallback
                          THEN Append(deferred, ResultCall(client.result_callback,
                                                           FALSE, t.msg, NoJobId))
                          ELSE deferred
                    /\ threads' = Exit(threads, t)
                    /\ client' = client
                    /\ net' = net /\ polls' = polls /\ idle_jobs' = idle_jobs]_vars
    /\ [][(host' # host /\ host'.call.fn = "result_callback"
              /\ ~host'.call.success) =>
            /\ deferred # << >> /\ host'.call = Head(deferred)
            /\ deferred' = Tail(deferred)
            /\ host'.ctx = "main"]_vars

\* the host has the failure of the one upload, and nothing is left running
C16_Witness ==
    /\ host = [call |-> ResultCall(1, FALSE, "Connection refused", NoJobId),
               ctx |-> "main"]
    /\ submits = 1 /\ threads = EmptyBag /\ deferred = << >>
    /\ client.current_job_id = NoJobId
    /\ polls = 0 /\ idle_jobs = 0

\* C17: a callback call reaches the host only from the deferred queue and on
\* the main thread, never from a worker; a request of submit, poll or
\* download is sent by a step of a worker thread, never by the main thread.
C17_CallbacksOnMainRequestsOnWorkers ==
    /\ [](host.ctx \in {"none", "main"})
    /\ [](net.kind \in {"submit", "status", "result"} => net.ctx = "worker")
    /\ [][host' # host =>
            /\ main = "idle" /\ deferred # << >>
            /\ host' = [call |-> Head(deferred), ctx |-> "main"]
            /\ deferred' = Tail(deferred)
            /\ threads' = threads]_vars
    /\ [][(net' # net /\ net'.kind # "root") =>
            \E t \in Workers : Steps(t)]_vars

\* the result of a download, requested by a worker, received on the main thread
C17_Witness ==
    /\ host.call.fn = "result_callback" /\ host.call.success
    /\ host.ctx = "main"
    /\ net.kind = "result" /\ net.ctx = "worker"

\* C18: a poll worker that has read status queued (processing) leaves the
\* status callback's call ("queued", 0) (("processing", 50)) and then one
\* _schedule_next_poll with evalDeferred and ends, touching nothing else: no
\* download, no result callback; the deferred _schedule_next_poll registers
\* one scriptJob, and a scriptJob that fires starts one poll worker if a job is
\* tracked.
C18_PendingStatusPollsAgain ==
    /\ [][\A t \in Workers :
            (t.kind = "poll" /\ t.status \in {"queued", "processing"} /\ Steps(t)) =>
               LET call == IF t.status = "queued"
                           THEN StatusCall("queued", 0, Absent)
                           ELSE StatusCall("processing", 50, Absent)
                   q == IF client.status_callback # Null
                        THEN Append(deferred, call) ELSE deferred
               IN /\ deferred' = Append(q, Method("_schedule_next_poll"))
                  /\ threads' = Exit(threads, t)
                  /\ client' = client /\ net' = net
                  /\ idle_jobs' = idle_jobs]_vars
    /\ [][(deferred # << >> /\ Head(deferred).fn = "_schedule_next_poll"
              /\ deferred' = Tail(deferred)) =>
            (idle_jobs' = idle_jobs + 1 /\ threads' = threads)]_vars
    /\ [][idle_jobs' < idle_jobs =>
            /\ idle_jobs' = idle_jobs - 1
            /\ threads' = IF client.current_job_id = NoJobId THEN threads
                          ELSE Start(threads, Worker("poll", "L149", 0))]_vars

\* ("processing", 50) received by the host, and the next poll worker started
C18_Witness ==
    /\ host = [call |-> StatusCall("processing", 50, Absent), ctx |-> "main"]
    /\ polls = 1 /\ idle_jobs = 0 /\ deferred = << >>
    /\ threads = SetToBag({Worker("poll", "L149", 0)})

C20_ErrorStatusReported ==
    [][\A t \in Workers :
          (t.kind = "poll" /\ t.status = "error" /\ Steps(t)) =>
             LET error_msg == IF t.msg = Absent THEN "Unknown error" ELSE t.msg
                 q == IF client.status_callback # Null
                      THEN Append(deferred, StatusCall("error", 0, error_msg))
                      ELSE deferred
             IN /\ deferred' =
                      IF client.result_callback # NoCallback
                      THEN Append(q, ResultCall(client.result_callback, FALSE,
                                                error_msg, NoJobId))
                      ELSE q
                /\ threads' = Exit(threads, t)
                /\ client' = client /\ net' = net
                /\ idle_jobs' = idle_jobs]_vars

\* the host has the failure of the job, and nothing is left running
C20_Witness ==
    /\ host = [call |-> ResultCall(1, FALSE, "analysis failed", NoJobId),
               ctx |-> "main"]
    /\ polls = 1 /\ threads = EmptyBag /\ deferred = << >> /\ idle_jobs = 0

\* C21: a status request that raised (a time-out, an HTTP error response) is
\* caught in the poll worker, which then leaves one _schedule_next_poll with
\* evalDeferred and nothing else: no result callback, no change of the
\* client; and the poll chain is carried on: the failed worker, the deferred
\* _schedule_next_poll, the scriptJob and the next worker of a tracked job
\* each stand for the one before.
C21_FailedPollPollsAgain ==
    /\ [][\A t \in Workers :
            (t.kind = "poll" /\ t.pc = "L150" /\ Steps(t)) =>
               \E u \in BagToSet(threads') :
                  /\ threads' = Start(Exit(threads, t), u)
                  /\ u.kind = "poll"
                  /\ (u.status = Absent) <=> (u.pc = "L205")]_vars
    /\ [][\A t \in Workers :
            (t.kind = "poll" /\ t.pc = "L205" /\ Steps(t)) =>
               /\ deferred' = Append(deferred, Method("_schedule_next_poll"))
               /\ threads' = Exit(threads, t)
               /\ client' = client /\ host' = host /\ net' = net]_vars
    /\ [][LET Polling(ts) ==
                BagCardinality([t \in {u \in BagToSet(ts) : u.kind = "poll"}
                                  |-> ts[t]])
            Scheduled(q) ==
                Cardinality({i \in 1..Len(q) : q[i].fn = "_schedule_next_poll"})
            Chain(ts, q, n) == Polling(ts) + Scheduled(q) + n
        IN ((\E t \in Workers : t.kind = "poll" /\ t.pc = "L205" /\ Steps(t))
             \/ (deferred # << >> /\ Head(deferred).fn = "_schedule_next_poll"
                   /\ deferred' = Tail(deferred))
             \/ (idle_jobs' < idle_jobs /\ client.current_job_id # NoJobId)) =>
            Chain(threads', deferred', idle_jobs')
               = Chain(threads, deferred, idle_jobs)]_vars

\* the UI's client after a status request that raised: nothing has reached
\* the host, and the next poll worker of the tracked job has started
C21_Witness ==
    /\ client.status_callback = OnStatus /\ client.current_job_id # NoJobId
    /\ host = Nothing
    /\ polls = 1 /\ net.kind = "status"
    /\ idle_jobs = 0 /\ deferred = << >>
    /\ threads = SetToBag({Worker("poll", "L149", 0)})

\* C22: a download worker is started only by the poll worker step that has
\* just left ("downloading", 75) with evalDeferred; a download worker that
\* has written the payload leaves ("complete", 100) and then the result
\* callback's call (True, path) with evalDeferred, path being the file it
\* wrote; the deferred calls reach the host first in, first out; and no call
\* (True, path), waiting or received, names a file that is not written.
C22_DownloadEventsInOrder ==
    /\ [][\A u \in BagToSet(threads') :
            (u.kind = "download" /\ u.pc = "L224"
                /\ CopiesIn(u, threads') > CopiesIn(u, threads)) =>
               /\ \E t \in Workers : t.kind = "poll" /\ t.status = "complete"
                                      /\ Steps(t)
               /\ deferred' = IF client.status_callback # Null
                              THEN Append(deferred,
                                          StatusCall("downloading", 75, Absent))
                              ELSE deferred]_vars
    /\ [][\A t \in Workers :
            (t.kind = "download" /\ t.pc = "L255" /\ Steps(t)) =>
               LET q == IF client.status_callback # Null
                        THEN Append(deferred, StatusCall("complete", 100, Absent))
                        ELSE deferred
               IN /\ t.file \in saved
                  /\ deferred' =
                        IF client.result_callback # NoCallback
                        THEN Append(q, ResultCall(client.result_callback, TRUE,
                                                  Absent, t.file))
                        ELSE q
                  /\ threads' = Exit(threads, t)]_vars
    /\ [][deferred' # deferred =>
            \/ /\ Len(deferred') > Len(deferred)
               /\ SubSeq(deferred', 1, Len(deferred)) = deferred
               /\ host' = host
            \/ /\ deferred # << >> /\ deferred' = Tail(deferred)
               /\ Head(deferred).fn \in {"status_callback", "result_callback"}
                     => host' = [call |-> Head(deferred), ctx |-> "main"]]_vars
    /\ [](\A i \in 1..Len(deferred) :
             (deferred[i].fn = "result_callback" /\ deferred[i].success)
                => deferred[i].file \in saved)
    /\ []((host.call.fn = "result_callback" /\ host.call.success)
             => host.call.file \in saved)

\* the UI has the result of the first submission, its file written
C22_Witness ==
    /\ client.status_callback = OnStatus
    /\ host = [call |-> ResultCall(1, TRUE, Absent, 1), ctx |-> "main"]
    /\ saved = {1} /\ completed = {1}
    /\ threads = EmptyBag /\ deferred = << >>

\* C23: when a stop_polling call returns, the client tracks no job and holds
\* no callback, neither the result callback nor the status callback, and no
\* poll is scheduled any more: no scriptJob waits for the idle event and no
\* _schedule_next_poll waits in the deferred queue; and a stop_polling call
\* on a client that tracks no job and holds no result callback changes none
\* of its attributes.
C23_StopClearsAndCancels ==
    /\ [][(main = "L296" /\ main' = "idle") =>
            /\ client'.current_job_id = NoJobId
            /\ client'.result_callback = NoCallback
            /\ client'.status_callback = Null
            /\ idle_jobs' = 0
            /\ \A i \in 1..Len(deferred') :
                  deferred'[i].fn # "_schedule_next_poll"]_vars
    /\ [][(main' # main /\ client.current_job_id = NoJobId
              /\ client.result_callback = NoCallback) =>
            client' = client]_vars

\* C24: once stop_polling has cleared current_job_id, and until submit_job is
\* called again, no step leaves a call of the status callback or of the
\* result callback with evalDeferred: the operations that were in flight end
\* without a callback for the host.
C24_NoCallbackAfterStop ==
    [][stopped =>
         \A i \in (Len(deferred) + 1)..Len(deferred') :
            deferred'[i].fn \notin {"status_callback", "result_callback"}]_vars

\* C25: a worker thread ends only at the last line of its try block or of
\* its except block, so an exception in it always reaches its except block;
\* the except block of a submit worker and of a download worker leaves the
\* call (False, message) of the registered result callback with
\* evalDeferred, the one of a poll worker leaves _schedule_next_poll; and a
\* deferred call leaves the queue only from its head, a callback's call by
\* being received by the host.
C25_NoFailureDropped ==
    /\ [][\A t \in Workers :
            (Steps(t) /\ threads' = Exit(threads, t)) =>
               t.pc \in {"L124", "L127", "L153", "L160", "L182", "L205",
                         "L255", "L266"}]_vars
    /\ [][\A t \in Workers :
            (t.pc \in {"L127", "L266"} /\ Steps(t)) =>
               /\ t.msg # Absent
               /\ client.result_callback # NoCallback =>
                     deferred' = Append(deferred,
                                        ResultCall(client.result_callback, FALSE,
                                                   t.msg, NoJobId))
               /\ threads' = Exit(threads, t)]_vars
    /\ [][\A t \in Workers :
            (t.pc = "L205" /\ Steps(t)) =>
               /\ deferred' = Append(deferred, Method("_schedule_next_poll"))
               /\ threads' = Exit(threads, t)]_vars
    /\ [][Len(deferred') < Len(deferred) =>
            /\ deferred' = Tail(deferred)
            /\ Head(deferred).fn = "result_callback" =>
                  host' = [call |-> Head(deferred), ctx |-> "main"]
            /\ Head(deferred).fn = "_schedule_next_poll" =>
                  idle_jobs' = idle_jobs + 1]_vars

\* the host has been told that the result of the finished job could not be
\* written
C25_Witness ==
    /\ host = [call |-> ResultCall(1, FALSE, "Permission denied", NoJobId),
               ctx |-> "main"]
    /\ completed = {1} /\ saved = {}
    /\ threads = EmptyBag /\ deferred = << >>

----------------------------------------------------------------------------
\* Properties of the colour mapping

\* C26: when results_to_colors has run on an array whose values are all
\* equal, every face's normalized value is 0.5, no value is NaN (nothing was
\* divided by zero), and every face has the colour the chosen mapping gives
\* 0.5: (1, 12/255, 0) for ecotect, (0.5, sqrt(0.5), 0.5) for viridis,
\* (0.5, 0.25, 0.5) for plasma, (1, 0.51, 0) for hot, (0.5, 1, 0.5) for cool
\* and (0.5, 0, 0.5) for any other name.
C26_EqualResultsMidColour ==
    (run.fn = "results_to_colors" /\ run.pc = "done"
        /\ \A i, j \in 1..Len(run.results) : run.results[i] = run.results[j]) =>
       LET half == [n |-> 1, d |-> 2, root |-> FALSE]
           zero == [n |-> 0, d |-> 1, root |-> FALSE]
           one == [n |-> 1, d |-> 1, root |-> FALSE]
           mid == CASE run.colormap = "ecotect" ->
                         <<one, [n |-> 4, d |-> 85, root |-> FALSE], zero>>
                    [] run.colormap = "viridis" ->
                         <<half, [n |-> 1, d |-> 2, root |-> TRUE], half>>
                    [] run.colormap = "plasma" ->
                         <<half, [n |-> 1, d |-> 4, root |-> FALSE], half>>
                    [] run.colormap = "hot" ->
                         <<one, [n |-> 51, d |-> 100, root |-> FALSE], zero>>
                    [] run.colormap = "cool" -> <<half, one, half>>
                    [] OTHER -> <<half, zero, half>>
       IN \A i \in 1..Len(run.results) :
             /\ run.normalized[i] = half
             /\ run.colors[i] = mid
             /\ \A c \in 1..3 : run.colors[i][c].d # 0

\* three faces of equal sun hours, coloured with the hot mapping
C26_Witness ==
    /\ run.fn = "results_to_colors" /\ run.pc = "done"
    /\ run.results = <<MaxHours, MaxHours, MaxHours>>
    /\ run.colormap = "hot"
    /\ Len(run.colors) = 3 /\ run.colors[3][2].n = 51

\* C27: when results_to_colors has run with the ecotect mapping on an array
\* whose values are not all equal, every face that holds the smallest value
\* has normalized value 0 and the colour (0, 0, 1), the first stop, and
\* every face that holds the largest value has normalized value 1 and the
\* colour (1, 1, 0), the last stop.
C27_EcotectEndpoints ==
    (run.fn = "results_to_colors" /\ run.pc = "done" /\ run.colormap = "ecotect"
        /\ \E i, j \in 1..Len(run.results) : run.results[i] # run.results[j]) =>
       LET zero == [n |-> 0, d |-> 1, root |-> FALSE]
           one == [n |-> 1, d |-> 1, root |-> FALSE]
       IN \A i \in 1..Len(run.results) :
             /\ (\A j \in 1..Len(run.results) : run.results[i] <= run.results[j])
                   => /\ run.normalized[i] = zero
                      /\ run.colors[i] = <<zero, zero, one>>
             /\ (\A j \in 1..Len(run.results) : run.results[j] <= run.results[i])
                   => /\ run.normalized[i] = one
                      /\ run.colors[i] = <<one, one, zero>>

\* a face without sun and a face with the most sun, coloured with ecotect
C27_Witness ==
    /\ run.fn = "results_to_colors" /\ run.pc = "done"
    /\ run.colormap = "ecotect"
    /\ run.results = <<0, MaxHours>>
    /\ run.colors[1][3].n = 1 /\ run.colors[2][3].n = 0

\* C28: when results_to_colors has run with a colormap name that is none of
\* ecotect, viridis, plasma, hot and cool, every face has the colour
\* (v, 0, 1 - v), v being its normalized value.
C28_UnknownNameBlueToRed ==
    (run.fn = "results_to_colors" /\ run.pc = "done"
        /\ run.colormap \notin {"ecotect", "viridis", "plasma", "hot", "cool"}) =>
       \A i \in 1..Len(run.results) :
          LET v == run.normalized[i] IN
          /\ v.d > 0 /\ ~v.root
          /\ run.colors[i][1] = v
          /\ run.colors[i][2] = [n |-> 0, d |-> 1, root |-> FALSE]
          /\ run.colors[i][3].d = v.d /\ run.colors[i][3].n = v.d - v.n
          /\ ~run.colors[i][3].root

\* three faces coloured with a mapping name the code does not know
C28_Witness ==
    /\ run.fn = "results_to_colors" /\ run.pc = "done"
    /\ run.colormap = "jet"
    /\ run.results = <<0, 1, MaxHours>>
    /\ run.colors[2] = <<[n |-> 1, d |-> 3, root |-> FALSE],
                         [n |-> 0, d |-> 1, root |-> FALSE],
                         [n |-> 2, d |-> 3, root |-> FALSE]>>

----------------------------------------------------------------------------
\* Properties of the pipeline functions

\* C29: an analyze_solar_scene call that has read the scene and run the
\* analysis ends, unless writing a file fails, by returning the path it was
\* given as output_path, or '<input base>_results.usda' when it was given
\* none, and the result scene has been written at that path.
C29_ReturnsPathWritten ==
    run.fn = "analyze_solar_scene" =>
       LET want == IF run.args.output_path = NoPath
                   THEN [base |-> run.args.usd_path.base, tag |-> "_results",
                         ext |-> ".usda"]
                   ELSE run.args.output_path
       IN /\ run.pc = "raised" =>
                run.exc \in {"write_results_to_usd failed",
                             "write_results_csv failed"}
          /\ (run.pc = "returned" /\ run.ret # NoPath) =>
                (run.ret = want /\ want \in run.written)

\* C30 as stated: a run_optix_analysis call on arrays one of which holds a
\* NaN or an Inf never calls the engine, and ends by raising the message
\* that names the first such array in the order face_centers, face_normals,
\* scene_triangles, sun_vectors.
C30_NonFiniteNamedFirst ==
    (run.fn = "run_optix_analysis" /\ run.bad # {}) =>
       /\ ~run.analyzed
       /\ run.pc # "returned"
       /\ run.pc = "raised" =>
             \E i \in 1..Len(Arrays) :
                /\ Arrays[i] \in run.bad
                /\ \A k \in 1..(i - 1) : Arrays[k] \notin run.bad
                /\ run.exc = InvalidMsg(Arrays[i])

\* C30, amended: such a call never calls the engine and never returns; when
\* the epw file exists and get_sun_vectors has read it, the call ends by
\* raising the message that names the first such array in that order (a
\* missing or unreadable epw file is reported first, before any array is
\* looked at).
C30_NonFiniteRejected ==
    (run.fn = "run_optix_analysis" /\ run.bad # {}) =>
       /\ ~run.analyzed
       /\ run.pc # "returned"
       /\ (run.pc = "raised" /\ run.epw = "ok") =>
             \E i \in 1..Len(Arrays) :
                /\ Arrays[i] \in run.bad
                /\ \A k \in 1..(i - 1) : Arrays[k] \notin run.bad
                /\ run.exc = InvalidMsg(Arrays[i])
       /\ (run.pc = "raised" /\ run.epw # "ok") =>
             run.exc \in {"Missing or invalid epw file path",
                          "get_sun_vectors failed"}

\* normals and sun vectors both hold a NaN: the call has ended naming the
\* normals, the engine not called
C30_Witness ==
    /\ run.fn = "run_optix_analysis" /\ run.pc = "raised"
    /\ run.bad = {"face_normals", "sun_vectors"} /\ run.epw = "ok"
    /\ run.exc = "Invalid face_normals: contains NaN or Inf"
    /\ ~run.analyzed

\* C31: the engine is called only with face centre and face normal arrays
\* of equal, non-zero length: a run_optix_analysis call that has reached
\* optix_module.analyze was given such arrays by read_target_mesh.
C31_TargetArraysMatch ==
    (run.fn = "run_optix_analysis" /\ run.analyzed) =>
       /\ run.face_centers = run.face_normals
       /\ run.face_centers > 0

\* C32: ecotect_color maps an input at or below 0 to the first stop and one
\* at or above 1 to the last; for an input v strictly between 0 and 1, with
\* i = floor(10 v), i + 1 is at most the index of the last stop and each
\* channel of the result is stop[i] + (10 v - i) * (stop[i+1] - stop[i]),
\* which lies between the two stops' channels and is stop k at v = k/10.
C32_EcotectInterpolates ==
    (run.fn = "ecotect_color" /\ run.pc = "returned"
        /\ run.normalized_value.d > 0) =>
       LET x == run.normalized_value
           last == Len(ecotect_colors)
           \* floor(10 x) of a fraction n/d, d > 0
           i == (10 * x.n) \div x.d
           \* 10 x - i as a fraction over d
           num == 10 * x.n - i * x.d
       IN /\ x.n <= 0 => run.ret = Stop(1)
          /\ x.n >= x.d => run.ret = Stop(last)
          /\ (0 < x.n /\ x.n < x.d) =>
                /\ i \in 0..(last - 2)
                /\ \A c \in 1..3 :
                      LET lo == ecotect_colors[i + 1][c]
                          hi == ecotect_colors[i + 2][c]
                          out == run.ret[c]
                      IN \* out = (lo + (num/d) (hi - lo)) / 255, in integers
                         /\ out.d > 0 /\ ~out.root
                         /\ out.n * 255 * x.d = out.d * (lo * x.d + num * (hi - lo))
                         /\ (lo <= hi) =>
                               (lo * out.d <= 255 * out.n /\ 255 * out.n <= hi * out.d)
                         /\ (hi <= lo) =>
                               (hi * out.d <= 255 * out.n /\ 255 * out.n <= lo * out.d)
                /\ num = 0 => run.ret = Stop(i + 1)

\* ecotect_color has returned the colour of 7/10: stop 7, (255, 119, 0)/255
C32_Witness ==
    /\ run.fn = "ecotect_color" /\ run.pc = "returned"
    /\ run.normalized_value = [n |-> 7, d |-> 10, root |-> FALSE]
    /\ run.ret[2] = [n |-> 7, d |-> 15, root |-> FALSE]

----------------------------------------------------------------------------
\* Properties of the status, result and health responses

\* C33: a 200 response of GET /status/{id} carries status and submitted_at;
\* it carries started_at exactly when the status it reports is processing,
\* completed_at exactly when it is complete, error and traceback exactly
\* when it is error, and then neither of the two is None.
C33_StatusBodyMatchesStatus ==
    (req.op = "get_status" /\ req.pc = "done" /\ req.resp.code = 200) =>
       /\ req.resp.status \in {"queued", "processing", "complete", "error"}
       /\ req.resp.submitted_at # Absent
       /\ req.resp.started_at # Absent <=> req.resp.status = "processing"
       /\ req.resp.completed_at # Absent <=> req.resp.status = "complete"
       /\ req.resp.error # Absent <=> req.resp.status = "error"
       /\ req.resp.traceback # Absent <=> req.resp.status = "error"
       /\ req.resp.status = "error" =>
             (req.resp.error # Null /\ req.resp.traceback # Null)

\* C34: GET /result/{id} of a job the handler has seen complete answers with
\* the file at the recorded result_path when that file exists, and with the
\* 500 'Result file not found' otherwise; no exception leaves the handler.
C34_CompleteResultAnswered ==
    (req.op = "get_result" /\ req.pc = "done" /\ req.seen = "complete") =>
       /\ req.resp # ServerError
       /\ \/ req.resp.code = 200 /\ req.resp.path \in disk[req.id].files
          \/ req.resp.code = 500 /\ req.resp.error = "Result file not found"

\* C35: in a health response, total is the sum of the queued, processing,
\* complete and error counts.
C35_HealthCountsAddUp ==
    (req.op = "root" /\ req.pc = "done") =>
       req.resp.jobs[1] =
          req.resp.jobs[2] + req.resp.jobs[3] + req.resp.jobs[4] + req.resp.jobs[5]

----------------------------------------------------------------------------
\* Properties of the client under a second submit_job call and under
\* stop_polling

\* C36: the host receives the result callback of a submit_job call at most
\* once, whatever the host and the workers do, a second submit_job call
\* included.
C36_ResultDeliveredAtMostOnce ==
    \A n \in 1..Resubmits : delivered[n] <= 1

\* C37: the download a complete status response starts requests the result
\* of the job that response was about.
C37_DownloadsPolledJob ==
    [][\A t \in Workers :
          (t.kind = "download" /\ t.pc = "L224" /\ Steps(t)) =>
             (net'.kind = "result" /\ net'.id = t.n)]_vars

\* C38: once stop_polling has returned, and until the host calls submit_job
\* again, current_job_id is None and no poll worker and no download worker is
\* started.
C38_StoppedStaysStopped ==
    /\ [](stopped /\ main = "idle" => client.current_job_id = NoJobId)
    /\ [][(stopped /\ main = "idle" /\ stopped') =>
             \A t \in BagToSet(threads') :
                (t.kind \in {"poll", "download"} /\ t.pc \in {"L149", "L224"}) =>
                   CopiesIn(t, threads') <= CopiesIn(t, threads)]_vars

\* C39: when the host receives a result callback, the UI's run button is
\* enabled: a status event that disabled it has been followed by a complete
\* or error event.
C39_ButtonEnabledAtOutcome ==
    (host.call.fn = "result_callback" /\ host.ctx = "main") => btn_run

====
